---- MODULE Spec2Model ----
(***************************************************************************)
(* Range analysis of integer variables over an e-SSA constraint graph      *)
(* (trunk/src/RangeAnalysis/RangeAnalysis.cpp): the interval lattice, the  *)
(* constraint graph builder, Nuutila's SCC finder and the fixpoint solver. *)
(***************************************************************************)
EXTENDS Integers, Sequences, FiniteSets, TLC

VARIABLES
    MAX_BIT_INT,    \* process-wide analysis width (RangeAnalysis.cpp:82)
    rop,            \* lattice harness: the Range operation applied ("none" before)
    rx, ry,         \* lattice harness: the operands (this, other)
    rres,           \* lattice harness: the Range returned
    total, failed,  \* RangeUnitTest: the assertions run and the assertions failed
    cousot,         \* the intervals an earlier run of the Cousot pass ended with
    prog,           \* the function analysed (its IR)
    CGT,            \* the strategy: "Cousot" or "CropDFS"
    pc,             \* where runOnFunction / findIntervals stands
    vars,           \* ConstraintGraph::vars (the values that have a VarNode)
    oprs,           \* ConstraintGraph::oprs
    defMap,         \* ConstraintGraph::defMap
    useMap,         \* ConstraintGraph::useMap
    symbMap,        \* ConstraintGraph::symbMap
    valuesBranchMap,\* ConstraintGraph::valuesBranchMap
    interval,       \* VarNode::interval of each VarNode
    abstractState,  \* VarNode::abstractState of each VarNode
    intersect,      \* the current range of each operation's intersect
    unresolved,     \* the SigmaOps marked unresolved
    dfs, root, inComponent, components, worklist, index,  \* Nuutila's members
    callStack,      \* the activations of Nuutila::visit
    pilha,          \* the stack handed to Nuutila::visit
    sccIter,        \* findIntervals: the roots still to iterate
    component,      \* findIntervals: the SCC being processed
    compUseMap,     \* findIntervals: buildUseMap(component)
    actv,           \* update: the active set (entryPoints / activeVars)
    useList,        \* update: the operations of the popped value still to meet
    nIterations,    \* update (bounded): the iterations left
    todo,           \* the VarNodes a loop over the component has still to visit
    cropOps,        \* CropDFS::posUpdate: the operations still to iterate
    activeOps,      \* CropDFS::crop: activeOps
    visitedOps,     \* CropDFS::crop: visitedOps
    cropping,       \* CropDFS::crop is running
    updStart,       \* update: the ranges and the active set it was called with
    cblk, cprev,    \* an execution of the function: current and previous block
    cenv,           \* an execution of the function: the values assigned so far
    reply           \* the last getRange call: the value asked and the Range returned

rvars == <<MAX_BIT_INT, rop, rx, ry, rres, total, failed, cousot>>

gvars == <<vars, oprs, defMap, useMap, symbMap, valuesBranchMap>>

nvars == <<dfs, root, inComponent, components, worklist, index, callStack, pilha>>

svars == <<sccIter, component, compUseMap, actv, useList, nIterations, todo,
           cropOps, activeOps, visitedOps, cropping, updStart>>

cvars == <<cblk, cprev, cenv>>

avars == <<prog, CGT, pc, gvars, interval, abstractState, intersect, unresolved,
           nvars, svars, cvars, reply>>

allvars == <<rvars, avars>>

(***************************************************************************)
(* APInt arithmetic at width MAX_BIT_INT (two's complement, wrapping).     *)
(***************************************************************************)
Pow2W == 2 ^ MAX_BIT_INT

Min == -(2 ^ (MAX_BIT_INT - 1))

Max == (2 ^ (MAX_BIT_INT - 1)) - 1

Zero == 0

\* the signed value of the low MAX_BIT_INT bits of x
wrap(x) == ((x - Min) % Pow2W) + Min

\* the unsigned value of the bit pattern of x
toU(x) == x % Pow2W

absI(x) == IF x < 0 THEN -x ELSE x

smin(a, b) == IF a < b THEN a ELSE b

smax(a, b) == IF a > b THEN a ELSE b

apAdd(a, b) == wrap(a + b)

apSub(a, b) == wrap(a - b)

apMul(a, b) == wrap(a * b)

apUDiv(a, b) == wrap(toU(a) \div toU(b))

apSDiv(a, b) ==
    LET q == absI(a) \div absI(b)
    IN  wrap(IF (a < 0) = (b < 0) THEN q ELSE -q)

apURem(a, b) == wrap(toU(a) % toU(b))

apSRem(a, b) ==
    LET r == absI(a) % absI(b)
    IN  wrap(IF a < 0 THEN -r ELSE r)

\* shifts take the amount as an unsigned APInt limited to the bit width
apShl(a, s) == IF toU(s) >= MAX_BIT_INT THEN 0 ELSE wrap(toU(a) * (2 ^ toU(s)))

apLShr(a, s) == IF toU(s) >= MAX_BIT_INT THEN 0 ELSE wrap(toU(a) \div (2 ^ toU(s)))

apAShr(a, s) == IF toU(s) >= MAX_BIT_INT THEN 0 ELSE a \div (2 ^ toU(s))

RECURSIVE bitRec(_, _, _, _)
bitRec(f, a, b, n) ==
    IF n = 0 THEN 0
    ELSE LET x == a % 2
             y == b % 2
             z == CASE f = "and" -> IF x = 1 /\ y = 1 THEN 1 ELSE 0
                    [] f = "or"  -> IF x = 1 \/ y = 1 THEN 1 ELSE 0
                    [] OTHER     -> IF x # y THEN 1 ELSE 0
         IN  z + 2 * bitRec(f, a \div 2, b \div 2, n - 1)

apAnd(a, b) == wrap(bitRec("and", toU(a), toU(b), MAX_BIT_INT))

apOr(a, b) == wrap(bitRec("or", toU(a), toU(b), MAX_BIT_INT))

apXor(a, b) == wrap(bitRec("xor", toU(a), toU(b), MAX_BIT_INT))

(***************************************************************************)
(* Range: a tagged triple (l, u, type).                                    *)
(***************************************************************************)
Range(lb, ub, rType) == [l |-> lb, u |-> ub, type |-> rType]

Regular(lb, ub) == Range(lb, ub, "Regular")

UnknownRange == Range(Min, Max, "Unknown")

EmptyRange == Range(Min, Max, "Empty")

MaxRange == Regular(Min, Max)

isUnknown(r) == r.type = "Unknown"

isEmpty(r) == r.type = "Empty"

isRegular(r) == r.type = "Regular"

isMaxRange(r) == r.l = Min /\ r.u = Max

\* add without the tests of the bounds against the sentinels
add_unsaturated(this, other) ==
    Regular(apAdd(this.l, other.l), apAdd(this.u, other.u))

add(this, other) ==
    LET l == IF this.l # Min /\ other.l # Min THEN apAdd(this.l, other.l) ELSE Min
        u == IF this.u # Max /\ other.u # Max THEN apAdd(this.u, other.u) ELSE Max
    IN  Regular(l, u)

\* sub without the tests of the bounds against the sentinels
sub_unsaturated(this, other) ==
    Regular(apSub(this.l, other.u), apSub(this.u, other.l))

sub(this, other) ==
    LET a == this.l
        b == this.u
        c == other.l
        d == other.u
        l == IF a = Min \/ d = Max THEN Min ELSE apSub(a, d)
        u == IF b = Max \/ c = Min THEN Max ELSE apSub(b, c)
    IN  Regular(l, u)

\* MUL_HELPER without the case "y.eq(Max)"
MUL_HELPER_left(x, y) ==
    IF x = Max THEN (IF y < Zero THEN Min ELSE IF y = Zero THEN Zero ELSE Max)
    ELSE IF x = Min THEN (IF y < Zero THEN Max ELSE IF y = Zero THEN Zero ELSE Min)
    ELSE IF y = Min THEN (IF x < Zero THEN Max ELSE IF x = Zero THEN Zero ELSE Min)
    ELSE apMul(x, y)

MUL_HELPER(x, y) ==
    IF x = Max THEN (IF y < Zero THEN Min ELSE IF y = Zero THEN Zero ELSE Max)
    ELSE IF y = Max THEN (IF x < Zero THEN Min ELSE IF x = Zero THEN Zero ELSE Max)
    ELSE IF x = Min THEN (IF y < Zero THEN Max ELSE IF y = Zero THEN Zero ELSE Min)
    ELSE IF y = Min THEN (IF x < Zero THEN Max ELSE IF x = Zero THEN Zero ELSE Min)
    ELSE apMul(x, y)

mul(this, other) ==
    IF isMaxRange(this) \/ isMaxRange(other) THEN MaxRange
    ELSE LET a == this.l
             b == this.u
             c == other.l
             d == other.u
             c0 == MUL_HELPER(a, c)
             c1 == MUL_HELPER(a, d)
             c2 == MUL_HELPER(b, c)
             c3 == MUL_HELPER(b, d)
         IN  Regular(smin(smin(c0, c1), smin(c2, c3)),
                     smax(smax(c0, c1), smax(c2, c3)))

cornerRange_swapped(ll, lu, ul, uu) ==
    Regular(IF ll < lu THEN ll ELSE lu, IF uu > ul THEN ul ELSE uu)

\* the shape shared by udiv .. Xor: l = min(ll, lu), u = max(uu, ul)
cornerRange(ll, lu, ul, uu) ==
    Regular(IF ll < lu THEN ll ELSE lu, IF uu > ul THEN uu ELSE ul)

udiv(this, other) ==
    LET ll == IF this.l # Min /\ other.l # Min /\ other.l # 0
              THEN apUDiv(this.l, other.l) ELSE Min
        lu == IF this.l # Min /\ other.u # Max /\ other.u # 0
              THEN apUDiv(this.l, other.u) ELSE Min
        ul == IF this.u # Max /\ other.l # Min /\ other.l # 0
              THEN apUDiv(this.u, other.l) ELSE Max
        uu == IF this.u # Max /\ other.u # Max /\ other.u # 0
              THEN apUDiv(this.u, other.u) ELSE Max
    IN  cornerRange(ll, lu, ul, uu)

sdiv(this, other) ==
    LET ll == IF this.l # Min /\ other.l # Min /\ other.l # 0
              THEN apSDiv(this.l, other.l) ELSE Min
        lu == IF this.l # Min /\ other.u # Max /\ other.u # 0
              THEN apSDiv(this.l, other.u) ELSE Min
        ul == IF this.u # Max /\ other.l # Min /\ other.l # 0
              THEN apSDiv(this.u, other.l) ELSE Max
        uu == IF this.u # Max /\ other.u # Max /\ other.u # 0
              THEN apSDiv(this.u, other.u) ELSE Max
    IN  cornerRange(ll, lu, ul, uu)

urem(this, other) ==
    IF other.l = Zero \/ other.u = Zero THEN MaxRange
    ELSE LET ll == IF this.l # Min /\ other.l # Min
                   THEN apURem(this.l, other.l) ELSE Min
             lu == IF this.l # Min /\ other.u # Max
                   THEN apURem(this.l, other.u) ELSE Min
             ul == IF this.u # Max /\ other.l # Min
                   THEN apURem(this.u, other.l) ELSE Max
             uu == IF this.u # Max /\ other.u # Max
                   THEN apURem(this.u, other.u) ELSE Max
         IN  cornerRange(ll, lu, ul, uu)

srem_zero_first(this, other) ==
    IF other = Regular(Zero, Zero) \/ other = EmptyRange THEN EmptyRange
    ELSE IF other.l = Zero \/ other.u = Zero THEN MaxRange
    ELSE IF other.l < Zero /\ other.u > Zero THEN MaxRange
    ELSE LET ll == IF this.l # Min /\ other.l # Min
                   THEN apSRem(this.l, other.l) ELSE Min
             lu == IF this.l # Min /\ other.u # Max
                   THEN apSRem(this.l, other.u) ELSE Min
             ul == IF this.u # Max /\ other.l # Min
                   THEN apSRem(this.u, other.l) ELSE Max
             uu == IF this.u # Max /\ other.u # Max
                   THEN apSRem(this.u, other.u) ELSE Max
         IN  cornerRange(ll, lu, ul, uu)

srem(this, other) ==
    IF other.l = Zero \/ other.u = Zero THEN MaxRange
    ELSE IF other = Regular(Zero, Zero) \/ other = EmptyRange THEN EmptyRange
    ELSE IF (other.l < Zero /\ other.u > Zero) \/ other.l = Zero \/ other.u = Zero
         THEN MaxRange
    ELSE LET ll == IF this.l # Min /\ other.l # Min
                   THEN apSRem(this.l, other.l) ELSE Min
             lu == IF this.l # Min /\ other.u # Max
                   THEN apSRem(this.l, other.u) ELSE Min
             ul == IF this.u # Max /\ other.l # Min
                   THEN apSRem(this.u, other.l) ELSE Max
             uu == IF this.u # Max /\ other.u # Max
                   THEN apSRem(this.u, other.u) ELSE Max
         IN  cornerRange(ll, lu, ul, uu)

shl(this, other) ==
    LET ll == IF this.l # Min /\ other.l # Min THEN apShl(this.l, other.l) ELSE Min
        lu == IF this.l # Min /\ other.u # Max THEN apShl(this.l, other.u) ELSE Min
        ul == IF this.u # Max /\ other.l # Min THEN apShl(this.u, other.l) ELSE Max
        uu == IF this.u # Max /\ other.u # Max THEN apShl(this.u, other.u) ELSE Max
    IN  cornerRange(ll, lu, ul, uu)

lshr(this, other) ==
    IF this.l < 0 \/ this.u < 0 THEN Regular(Zero, Max)
    ELSE LET ll == IF this.l # Min /\ other.l # Min THEN apLShr(this.l, other.l) ELSE Min
             lu == IF this.l # Min /\ other.u # Max THEN apLShr(this.l, other.u) ELSE Min
             ul == IF this.u # Max /\ other.l # Min THEN apLShr(this.u, other.l) ELSE Max
             uu == IF this.u # Max /\ other.u # Max THEN apLShr(this.u, other.u) ELSE Max
         IN  cornerRange(ll, lu, ul, uu)

ashr(this, other) ==
    LET ll == IF this.l # Min /\ other.l # Min THEN apAShr(this.l, other.l) ELSE Min
        lu == IF this.l # Min /\ other.u # Max THEN apAShr(this.l, other.u) ELSE Min
        ul == IF this.u # Max /\ other.l # Min THEN apAShr(this.u, other.l) ELSE Max
        uu == IF this.u # Max /\ other.u # Max THEN apAShr(this.u, other.u) ELSE Max
    IN  cornerRange(ll, lu, ul, uu)

\* And without the tests of the bounds against the sentinels
And_corners(this, other) ==
    cornerRange(apAnd(this.l, other.l), apAnd(this.l, other.u),
                apAnd(this.u, other.l), apAnd(this.u, other.u))

And(this, other) ==
    LET ll == IF this.l # Min /\ other.l # Min THEN apAnd(this.l, other.l) ELSE Min
        lu == IF this.l # Min /\ other.u # Max THEN apAnd(this.l, other.u) ELSE Min
        ul == IF this.u # Max /\ other.l # Min THEN apAnd(this.u, other.l) ELSE Max
        uu == IF this.u # Max /\ other.u # Max THEN apAnd(this.u, other.u) ELSE Max
    IN  cornerRange(ll, lu, ul, uu)

Or(this, other) ==
    IF isUnknown(this) \/ isUnknown(other) THEN UnknownRange
    ELSE LET ll == IF this.l # Min /\ other.l # Min THEN apOr(this.l, other.l) ELSE Min
             lu == IF this.l # Min /\ other.u # Max THEN apOr(this.l, other.u) ELSE Min
             ul == IF this.u # Max /\ other.l # Min THEN apOr(this.u, other.l) ELSE Max
             uu == IF this.u # Max /\ other.u # Max THEN apOr(this.u, other.u) ELSE Max
         IN  cornerRange(ll, lu, ul, uu)

Xor(this, other) ==
    LET ll == IF this.l # Min /\ other.l # Min THEN apXor(this.l, other.l) ELSE Min
        lu == IF this.l # Min /\ other.u # Max THEN apXor(this.l, other.u) ELSE Min
        ul == IF this.u # Max /\ other.l # Min THEN apXor(this.u, other.l) ELSE Max
        uu == IF this.u # Max /\ other.u # Max THEN apXor(this.u, other.u) ELSE Max
    IN  cornerRange(ll, lu, ul, uu)

\* intersectWith without the test "other.isEmpty()"
intersectWith_unchecked(this, other) ==
    IF isEmpty(this) THEN EmptyRange
    ELSE IF isUnknown(this) THEN other
    ELSE IF isUnknown(other) THEN this
    ELSE Regular(IF this.l > other.l THEN this.l ELSE other.l,
                 IF this.u < other.u THEN this.u ELSE other.u)

intersectWith(this, other) ==
    IF isEmpty(this) \/ isEmpty(other) THEN EmptyRange
    ELSE IF isUnknown(this) THEN other
    ELSE IF isUnknown(other) THEN this
    ELSE Regular(IF this.l > other.l THEN this.l ELSE other.l,
                 IF this.u < other.u THEN this.u ELSE other.u)

\* unionWith without the test "other.isUnknown()"
unionWith_unchecked(this, other) ==
    IF isEmpty(this) THEN other
    ELSE IF isEmpty(other) THEN this
    ELSE IF isUnknown(this) THEN other
    ELSE Regular(IF this.l < other.l THEN this.l ELSE other.l,
                 IF this.u > other.u THEN this.u ELSE other.u)

unionWith(this, other) ==
    IF isEmpty(this) THEN other
    ELSE IF isEmpty(other) THEN this
    ELSE IF isUnknown(this) THEN other
    ELSE IF isUnknown(other) THEN this
    ELSE Regular(IF this.l < other.l THEN this.l ELSE other.l,
                 IF this.u > other.u THEN this.u ELSE other.u)

(***************************************************************************)
(* BinaryOp::eval's opcode switch (the arithmetic on two Regular operands).*)
(***************************************************************************)
BinaryOpcodes ==
    {"Add", "Sub", "Mul", "UDiv", "SDiv", "URem", "SRem",
     "Shl", "LShr", "AShr", "And", "Or", "Xor"}

evalOpcode(opcode, op1, op2) ==
    CASE opcode = "Add"  -> add(op1, op2)
      [] opcode = "Sub"  -> sub(op1, op2)
      [] opcode = "Mul"  -> mul(op1, op2)
      [] opcode = "UDiv" -> udiv(op1, op2)
      [] opcode = "SDiv" -> sdiv(op1, op2)
      [] opcode = "URem" -> urem(op1, op2)
      [] opcode = "SRem" -> srem(op1, op2)
      [] opcode = "Shl"  -> shl(op1, op2)
      [] opcode = "LShr" -> lshr(op1, op2)
      [] opcode = "AShr" -> ashr(op1, op2)
      [] opcode = "And"  -> And(op1, op2)
      [] opcode = "Or"   -> Or(op1, op2)
      [] opcode = "Xor"  -> Xor(op1, op2)
      [] OTHER           -> UnknownRange

(***************************************************************************)
(* Casts.                                                                  *)
(***************************************************************************)
truncate(this, bitwidth) ==
    LET maxupper == (2 ^ (bitwidth - 1)) - 1
        maxlower == -(2 ^ (bitwidth - 1))
    IN  IF this.l >= maxlower /\ this.u <= maxupper THEN this
        ELSE Regular(maxlower, maxupper)

sextOrTrunc(this, bitwidth) == truncate(this, bitwidth)

zextOrTrunc(this, bitwidth) ==
    Regular(-(2 ^ (bitwidth - 1)), (2 ^ (bitwidth - 1)) - 1)

(***************************************************************************)
(* SymbInterval: a predicate and a bound, resolved against the current     *)
(* ranges of the bound and of the sink.                                    *)
(***************************************************************************)
SymbInterval_fixIntersects_unguarded(pred, bound, sink) ==
    CASE pred = "EQ"  -> Regular(bound.l, bound.u)
      [] pred = "SLE" -> Regular(sink.l, bound.u)
      [] pred = "SLT" -> Regular(sink.l, apSub(bound.u, 1))
      [] pred = "SGE" -> Regular(bound.l, sink.u)
      [] pred = "SGT" -> Regular(apAdd(bound.l, 1), sink.u)
      [] OTHER        -> MaxRange

SymbInterval_fixIntersects(pred, bound, sink) ==
    LET l == bound.l
        u == bound.u
        lower == sink.l
        upper == sink.u
    IN  CASE pred = "EQ"  -> Regular(l, u)
          [] pred = "SLE" -> Regular(lower, u)
          [] pred = "SLT" -> IF u # Max THEN Regular(lower, apSub(u, 1))
                             ELSE Regular(lower, u)
          [] pred = "SGE" -> Regular(l, upper)
          [] pred = "SGT" -> IF l # Min THEN Regular(apAdd(l, 1), upper)
                             ELSE Regular(l, upper)
          [] OTHER        -> MaxRange

\* CmpInst::getInversePredicate on the predicates the builder meets
getInversePredicate(pred) ==
    CASE pred = "EQ"  -> "NE"
      [] pred = "NE"  -> "EQ"
      [] pred = "SLT" -> "SGE"
      [] pred = "SGE" -> "SLT"
      [] pred = "SLE" -> "SGT"
      [] pred = "SGT" -> "SLE"

(***************************************************************************)
(* The IR a function is given in: values 1..N (constants, arguments and    *)
(* instructions), basic blocks of instructions, each with a terminator.    *)
(*   value  [k: "const" | "arg" | "inst", c: the constant, bw: type width] *)
(*   inst   [dst, opc, args, inb (phi: incoming blocks), sigma, bw]        *)
(*   term   [t: "br" | "condbr" | "ret", pred, op0, op1, tb, fb]           *)
(***************************************************************************)
EmptyFn == [x \in {} |-> 0]

SeqRange(s) == {s[i] : i \in DOMAIN s}

RECURSIVE SeqConcat(_)
SeqConcat(ss) == IF ss = <<>> THEN <<>> ELSE Head(ss) \o SeqConcat(Tail(ss))

SetMax(S) == CHOOSE x \in S : \A y \in S : y <= x

SetMin(S) == CHOOSE x \in S : \A y \in S : x <= y

\* inst_begin(F) .. inst_end(F): the instructions in block order
AllInsts(F) == SeqConcat([b \in DOMAIN F.blocks |-> F.blocks[b].insts])

isBinaryOp(I) == I.opc \in BinaryOpcodes

isValidInstruction(I) ==
    I.opc \in BinaryOpcodes \cup {"PHI", "Trunc", "ZExt", "SExt", "Load", "Store"}

isConstantInt(F, V) == F.vals[V].k = "const"

isCastInst(F, V) ==
    /\ F.vals[V].k = "inst"
    /\ \E i \in DOMAIN AllInsts(F) :
          AllInsts(F)[i].dst = V /\ AllInsts(F)[i].opc \in {"Trunc", "ZExt", "SExt"}

castOperand(F, V) ==
    LET i == CHOOSE j \in DOMAIN AllInsts(F) : AllInsts(F)[j].dst = V
    IN  AllInsts(F)[i].args[1]

getMaxBitWidth(F) ==
    LET ws == {F.vals[v].bw : v \in DOMAIN F.vals}
        max == IF ws = {} THEN 0 ELSE SetMax(ws)
    IN  IF max = 0 THEN 1 ELSE max

(***************************************************************************)
(* ConstraintGraph: the builder.  A graph under construction is            *)
(*   [vars, useMap, defMap, oprs, valuesBranchMap]                         *)
(* with oprs a sequence, an operation being known by its index in it.      *)
(*   op  [kind: "Unary" | "Sigma" | "Binary" | "Phi", sink, srcs, opcode,  *)
(*        bw, itv]                                                         *)
(*   itv [symb, range, bound, pred]   (BasicInterval / SymbInterval)       *)
(* A use list holds edges [cd, op]: the operation op itself, or (cd) the   *)
(* ControlDep pseudo-edge made for the symbolic operation op.              *)
(***************************************************************************)
BasicInterval(range) == [symb |-> FALSE, range |-> range, bound |-> 0, pred |-> "none"]

SymbInterval(range, bound, pred) ==
    [symb |-> TRUE, range |-> range, bound |-> bound, pred |-> pred]

UseEdge(op) == [cd |-> FALSE, op |-> op]

ControlDep(op) == [cd |-> TRUE, op |-> op]

EmptyGraph ==
    [vars |-> {}, useMap |-> EmptyFn, defMap |-> EmptyFn, oprs |-> <<>>,
     valuesBranchMap |-> EmptyFn]

addVarNode(G, V) ==
    IF V \in G.vars THEN G
    ELSE [G EXCEPT !.vars = @ \cup {V}, !.useMap = @ @@ (V :> {})]

\* oprs.insert(op); defMap[sink] = op; useMap[source].insert(op) for each source
insertOp(G, op) ==
    LET id == Len(G.oprs) + 1
    IN  [G EXCEPT !.oprs = Append(@, op),
                  !.defMap = (op.sink :> id) @@ @,
                  !.useMap = [v \in DOMAIN @ |->
                                 IF v \in SeqRange(op.srcs)
                                 THEN @[v] \cup {UseEdge(id)} ELSE @[v]]]

addUnaryOp(G, I) ==
    LET G1 == addVarNode(G, I.dst)
    IN  IF I.opc \notin {"Store", "Load", "Trunc", "ZExt", "SExt"} THEN G1
        ELSE LET src == IF I.opc = "Store" THEN I.args[2] ELSE I.args[1]
                 G2 == addVarNode(G1, src)
             IN  insertOp(G2, [kind |-> "Unary", sink |-> I.dst, srcs |-> <<src>>,
                               opcode |-> I.opc, bw |-> I.bw,
                               itv |-> BasicInterval(MaxRange)])

addBinaryOp(G, I) ==
    LET G1 == addVarNode(addVarNode(addVarNode(G, I.dst), I.args[1]), I.args[2])
    IN  insertOp(G1, [kind |-> "Binary", sink |-> I.dst,
                      srcs |-> <<I.args[1], I.args[2]>>,
                      opcode |-> I.opc, bw |-> I.bw,
                      itv |-> BasicInterval(MaxRange)])

RECURSIVE addVarNodes(_, _)
addVarNodes(G, vs) ==
    IF vs = <<>> THEN G ELSE addVarNodes(addVarNode(G, Head(vs)), Tail(vs))

addPhiOp(G, Phi) ==
    LET G1 == addVarNodes(addVarNode(G, Phi.dst), Phi.args)
    IN  insertOp(G1, [kind |-> "Phi", sink |-> Phi.dst, srcs |-> Phi.args,
                      opcode |-> "PHI", bw |-> Phi.bw,
                      itv |-> BasicInterval(MaxRange)])

\* the sigma's block is thisbb; its one operand is looked up in valuesBranchMap
addSigmaOp(G, Sigma, thisbb) ==
    LET operand == Sigma.args[1]
        G1 == addVarNode(addVarNode(G, Sigma.dst), operand)
        found == operand \in DOMAIN G.valuesBranchMap
        VBM == G.valuesBranchMap[operand]
        BItv == IF found /\ thisbb = VBM.BBTrue THEN VBM.ItvT
                ELSE IF found /\ thisbb = VBM.BBFalse THEN VBM.ItvF
                ELSE BasicInterval(MaxRange)
    IN  insertOp(G1, [kind |-> "Sigma", sink |-> Sigma.dst, srcs |-> <<operand>>,
                      opcode |-> "PHI", bw |-> Sigma.bw, itv |-> BItv])

buildOperations(G, I, thisbb) ==
    IF isBinaryOp(I) THEN addBinaryOp(G, I)
    ELSE IF I.opc = "PHI"
         THEN (IF I.sigma THEN addSigmaOp(G, I, thisbb) ELSE addPhiOp(G, I))
    ELSE addUnaryOp(G, I)

\* ConstantRange::makeICmpRegion(pred, {C}) as the set of values v with v pred C
makeICmpRegion(pred, C) ==
    {v \in Min..Max :
        CASE pred = "EQ"  -> v = C
          [] pred = "NE"  -> v # C
          [] pred = "SLT" -> v < C
          [] pred = "SLE" -> v <= C
          [] pred = "SGT" -> v > C
          [] pred = "SGE" -> v >= C}

\* getSignedMin / getSignedMax of a region, then "if (sigMax.slt(sigMin)) sigMax = Max"
regionValues(S) ==
    LET sigMin == SetMin(S)
        sigMax == SetMax(S)
    IN  Regular(sigMin, IF sigMax < sigMin THEN Max ELSE sigMax)

\* insert: an existing key keeps its entry
mapInsert(m, k, v) == m @@ (k :> v)

ValueBranchMap(V, BBTrue, BBFalse, ItvT, ItvF) ==
    [V |-> V, BBTrue |-> BBTrue, BBFalse |-> BBFalse, ItvT |-> ItvT, ItvF |-> ItvF]

buildValueBranchMap(F, G, br) ==
    IF br.t # "condbr" THEN G
    ELSE
    LET G1 == addVarNode(addVarNode(G, br.op0), br.op1)
        TBlock == br.tb
        FBlock == br.fb
        Op0 == br.op0
        Op1 == br.op1
    IN  IF isConstantInt(F, Op1)
        THEN LET tmpT == makeICmpRegion(br.pred, F.vals[Op1].c)
                 tmpF == (Min..Max) \ tmpT
                 BT == BasicInterval(regionValues(tmpT))
                 BF == BasicInterval(regionValues(tmpF))
                 m1 == mapInsert(G1.valuesBranchMap, Op0,
                                 ValueBranchMap(Op0, TBlock, FBlock, BT, BF))
                 m2 == IF isCastInst(F, Op0)
                       THEN mapInsert(m1, castOperand(F, Op0),
                                ValueBranchMap(castOperand(F, Op0), TBlock, FBlock, BT, BF))
                       ELSE m1
             IN  [G1 EXCEPT !.valuesBranchMap = m2]
        ELSE LET pred == br.pred
                 invPred == getInversePredicate(br.pred)
                 CR == UnknownRange
                 m1 == mapInsert(G1.valuesBranchMap, Op0,
                          ValueBranchMap(Op0, TBlock, FBlock,
                              SymbInterval(CR, Op1, pred), SymbInterval(CR, Op1, invPred)))
                 m2 == IF isCastInst(F, Op0)
                       THEN mapInsert(m1, castOperand(F, Op0),
                                ValueBranchMap(castOperand(F, Op0), TBlock, FBlock,
                                    SymbInterval(CR, Op1, pred),
                                    SymbInterval(CR, Op1, invPred)))
                       ELSE m1
                 m3 == mapInsert(m2, Op1,
                          ValueBranchMap(Op1, TBlock, FBlock,
                              SymbInterval(CR, Op0, invPred), SymbInterval(CR, Op0, pred)))
                 m4 == IF isCastInst(F, Op1)
                       THEN mapInsert(m3, castOperand(F, Op1),
                                ValueBranchMap(castOperand(F, Op1), TBlock, FBlock,
                                    SymbInterval(CR, Op1, pred),
                                    SymbInterval(CR, Op1, invPred)))
                       ELSE m3
             IN  [G1 EXCEPT !.valuesBranchMap = m4]

RECURSIVE buildValueMapsFrom(_, _, _)
buildValueMapsFrom(F, G, b) ==
    IF b > Len(F.blocks) THEN G
    ELSE buildValueMapsFrom(F, buildValueBranchMap(F, G, F.blocks[b].term), b + 1)

buildValueMaps(F, G) == buildValueMapsFrom(F, G, 1)

RECURSIVE buildBlockOps(_, _, _, _)
buildBlockOps(G, insts, i, thisbb) ==
    IF i > Len(insts) THEN G
    ELSE buildBlockOps(
             IF isValidInstruction(insts[i]) THEN buildOperations(G, insts[i], thisbb)
             ELSE G,
             insts, i + 1, thisbb)

RECURSIVE buildGraphFrom(_, _, _)
buildGraphFrom(F, G, b) ==
    IF b > Len(F.blocks) THEN G
    ELSE buildGraphFrom(F, buildBlockOps(G, F.blocks[b].insts, 1, b), b + 1)

buildGraph(F, G) == buildGraphFrom(F, buildValueMaps(F, G), 1)

\* VarNode::init without the case of a node that is not outside
VarNode_init_outside(F, V, outside) ==
    IF isConstantInt(F, V) THEN Regular(F.vals[V].c, F.vals[V].c)
    ELSE MaxRange

\* VarNode::init(outside) for the value V
VarNode_init(F, V, outside) ==
    IF isConstantInt(F, V) THEN Regular(F.vals[V].c, F.vals[V].c)
    ELSE IF ~outside THEN UnknownRange
    ELSE MaxRange

(***************************************************************************)
(* The functions analysed.  Every value has the type width ProgWidth.      *)
(***************************************************************************)
ProgWidth == 4

Val(k, c) == [k |-> k, c |-> c, bw |-> ProgWidth]

Inst(dst, opc, args) ==
    [dst |-> dst, opc |-> opc, args |-> args, inb |-> <<>>, sigma |-> FALSE,
     bw |-> ProgWidth]

Phi(dst, args, inb) ==
    [dst |-> dst, opc |-> "PHI", args |-> args, inb |-> inb, sigma |-> FALSE,
     bw |-> ProgWidth]

Sigma(dst, src, from) ==
    [dst |-> dst, opc |-> "PHI", args |-> <<src>>, inb |-> <<from>>, sigma |-> TRUE,
     bw |-> ProgWidth]

Br(tb) == [t |-> "br", pred |-> "none", op0 |-> 0, op1 |-> 0, tb |-> tb, fb |-> 0]

CondBr(pred, op0, op1, tb, fb) ==
    [t |-> "condbr", pred |-> pred, op0 |-> op0, op1 |-> op1, tb |-> tb, fb |-> fb]

Ret == [t |-> "ret", pred |-> "none", op0 |-> 0, op1 |-> 0, tb |-> 0, fb |-> 0]

Block(insts, term) == [insts |-> insts, term |-> term]

\* x = init; while (x pred K) x = x opc step;
\*   1: const init   2: const K   3: const step   4: x at the header
\*   5: x in the body   6: x opc step   7: x at the exit
ProgLoop(init, pred, K, opc, step) ==
    [vals |-> <<Val("const", init), Val("const", K), Val("const", step),
                Val("inst", 0), Val("inst", 0), Val("inst", 0), Val("inst", 0)>>,
     blocks |-> <<
        Block(<<>>, Br(2)),
        Block(<<Phi(4, <<1, 6>>, <<1, 3>>)>>, CondBr(pred, 4, 2, 3, 4)),
        Block(<<Sigma(5, 4, 2), Inst(6, opc, <<5, 3>>)>>, Br(2)),
        Block(<<Sigma(7, 4, 2)>>, Ret) >>]

\* if (x > 5) if (x < 3) use(x);
\*   1: x   2: const 5   3: const 3   4: x under x > 5   5: x under x < 3
ProgNest ==
    [vals |-> <<Val("arg", 0), Val("const", 5), Val("const", 3), Val("inst", 0),
                Val("inst", 0)>>,
     blocks |-> <<
        Block(<<>>, CondBr("SGT", 1, 2, 2, 4)),
        Block(<<Sigma(4, 1, 1)>>, CondBr("SLT", 4, 3, 3, 4)),
        Block(<<Sigma(5, 4, 2)>>, Ret),
        Block(<<>>, Ret) >>]

\* if (x >= 1) if (x <= 3) z = x * 3;
\*   1: x   2: const 1   3: const 3   4: x under x >= 1   5: x under x <= 3   6: z
ProgMul ==
    [vals |-> <<Val("arg", 0), Val("const", 1), Val("const", 3), Val("inst", 0),
                Val("inst", 0), Val("inst", 0)>>,
     blocks |-> <<
        Block(<<>>, CondBr("SGE", 1, 2, 2, 4)),
        Block(<<Sigma(4, 1, 1)>>, CondBr("SLE", 4, 3, 3, 4)),
        Block(<<Sigma(5, 4, 2), Inst(6, "Mul", <<5, 3>>)>>, Ret),
        Block(<<>>, Ret) >>]

\* if (a <= 3) if (b <= 3) { if (a < b) use(a, b); else use(a, b); }
\*   1: a   2: b   3: const 3   4: a under a <= 3   5: b under b <= 3
\*   6, 7: a, b under a < b     8, 9: a, b under !(a < b)
ProgCmp ==
    [vals |-> <<Val("arg", 0), Val("arg", 0), Val("const", 3), Val("inst", 0),
                Val("inst", 0), Val("inst", 0), Val("inst", 0), Val("inst", 0),
                Val("inst", 0)>>,
     blocks |-> <<
        Block(<<>>, CondBr("SLE", 1, 3, 2, 6)),
        Block(<<Sigma(4, 1, 1)>>, CondBr("SLE", 2, 3, 3, 6)),
        Block(<<Sigma(5, 2, 2)>>, CondBr("SLT", 4, 5, 4, 5)),
        Block(<<Sigma(6, 4, 3), Sigma(7, 5, 3)>>, Ret),
        Block(<<Sigma(8, 4, 3), Sigma(9, 5, 3)>>, Ret),
        Block(<<>>, Ret) >>]

\* i = 0; while (i < n) i++;
\*   1: const 0   2: const 1   3: n   4: i at the header   5: i in the body
\*   6: i + 1     7: i at the exit
ProgSymLoop ==
    [vals |-> <<Val("const", 0), Val("const", 1), Val("arg", 0), Val("inst", 0),
                Val("inst", 0), Val("inst", 0), Val("inst", 0)>>,
     blocks |-> <<
        Block(<<>>, Br(2)),
        Block(<<Phi(4, <<1, 6>>, <<1, 3>>)>>, CondBr("SLT", 4, 3, 3, 4)),
        Block(<<Sigma(5, 4, 2), Inst(6, "Add", <<5, 2>>)>>, Br(2)),
        Block(<<Sigma(7, 4, 2)>>, Ret) >>]

\* x = 1; while (x < 5) { if (c <= 1) x = x + 1; }
\*   1: const 1   2: const 5   3: c   4: x at the header   5: x in the body
\*   6: x + 1     7: x at the join   8: x at the exit
ProgDiamond ==
    [vals |-> <<Val("const", 1), Val("const", 5), Val("arg", 0), Val("inst", 0),
                Val("inst", 0), Val("inst", 0), Val("inst", 0), Val("inst", 0)>>,
     blocks |-> <<
        Block(<<>>, Br(2)),
        Block(<<Phi(4, <<1, 7>>, <<1, 5>>)>>, CondBr("SLT", 4, 2, 3, 6)),
        Block(<<Sigma(5, 4, 2)>>, CondBr("SLE", 3, 1, 4, 5)),
        Block(<<Inst(6, "Add", <<5, 1>>)>>, Br(5)),
        Block(<<Phi(7, <<6, 5>>, <<4, 3>>)>>, Br(2)),
        Block(<<Sigma(8, 4, 2)>>, Ret) >>]

\* the loops analysed: the three constants are distinct values of the IR
LoopInits == {0, 1}

LoopBounds == {5, -6}

LoopSteps == {2, 3}

LoopPreds == {"SLT", "SLE", "SGT", "NE"}

LoopOpcodes == {"Add", "Sub", "Mul"}

Loops ==
    {ProgLoop(init, pred, K, opc, step) :
        <<init, pred, K, opc, step>> \in
            LoopInits \X LoopPreds \X LoopBounds \X LoopOpcodes \X LoopSteps}

Programs == Loops \cup {ProgNest, ProgMul, ProgCmp, ProgSymLoop, ProgDiamond}

F == prog

(***************************************************************************)
(* Evaluation of an operation; itv holds the range of every VarNode.       *)
(***************************************************************************)
sinkOf_source(e) == oprs[e.op].srcs[1]

sinkOf(e) == oprs[e.op].sink

\* "if (!getIntersect()->getRange().isMaxRange()) result = result.intersectWith(aux)"
withIntersect(result, aux) ==
    IF ~isMaxRange(aux) THEN intersectWith(result, aux) ELSE result

UnaryOp_eval(itv, op) ==
    LET bw == oprs[op].bw
        oprnd == itv[oprs[op].srcs[1]]
    IN  withIntersect(IF isRegular(oprnd)
                      THEN CASE oprs[op].opcode = "Trunc" -> truncate(oprnd, bw)
                             [] oprs[op].opcode = "ZExt"  -> zextOrTrunc(oprnd, bw)
                             [] oprs[op].opcode = "SExt"  -> sextOrTrunc(oprnd, bw)
                             [] OTHER                     -> oprnd
                      ELSE IF isEmpty(oprnd) THEN EmptyRange
                      ELSE UnknownRange,
                      intersect[op])

SigmaOp_eval(itv, op) == intersectWith(itv[oprs[op].srcs[1]], intersect[op])

\* "if (result.getLower().sgt(result.getUpper())) result = Range(Min, Max)"
fixInconsistent(result) == IF result.l > result.u THEN MaxRange ELSE result

BinaryOp_eval(itv, op) ==
    LET op1 == itv[oprs[op].srcs[1]]
        op2 == itv[oprs[op].srcs[2]]
    IN  IF isRegular(op1) /\ isRegular(op2)
        THEN withIntersect(fixInconsistent(evalOpcode(oprs[op].opcode, op1, op2)),
                           intersect[op])
        ELSE IF isEmpty(op1) \/ isEmpty(op2) THEN EmptyRange
        ELSE UnknownRange

RECURSIVE PhiOp_fold(_, _, _, _)
PhiOp_fold(itv, result, srcs, i) ==
    IF i > Len(srcs) THEN result
    ELSE PhiOp_fold(itv, unionWith(result, itv[srcs[i]]), srcs, i + 1)

\* PhiOp::eval without the loop over the other sources
PhiOp_eval_first(itv, op) == itv[oprs[op].srcs[1]]

PhiOp_eval(itv, op) == PhiOp_fold(itv, itv[oprs[op].srcs[1]], oprs[op].srcs, 2)

eval(itv, op) ==
    CASE oprs[op].kind = "Unary"  -> UnaryOp_eval(itv, op)
      [] oprs[op].kind = "Sigma"  -> SigmaOp_eval(itv, op)
      [] oprs[op].kind = "Binary" -> BinaryOp_eval(itv, op)
      [] oprs[op].kind = "Phi"    -> PhiOp_eval(itv, op)

\* ConstraintGraph::getRange: the lookup in vars is commented out
getRange(v) == UnknownRange

(***************************************************************************)
(* The meet operators.  Each gives the range the sink holds afterwards and *)
(* whether the operator reports a change.                                  *)
(***************************************************************************)
MeetResult(range, changed) == [range |-> range, changed |-> changed]

\* the meets on the old range of the sink and the range eval gives
fixed(oldInterval, newInterval) ==
    MeetResult(newInterval, oldInterval # newInterval)

Meet_fixed(itv, op) == fixed(itv[oprs[op].sink], eval(itv, op))

widen(oldInterval, newInterval) ==
    LET sinkInterval ==
            IF isUnknown(oldInterval) THEN newInterval
            ELSE IF newInterval.l < oldInterval.l /\ newInterval.u > oldInterval.u
                 THEN MaxRange
            ELSE IF newInterval.l < oldInterval.l THEN Regular(Min, oldInterval.u)
            ELSE IF newInterval.u > oldInterval.u THEN Regular(oldInterval.l, Max)
            ELSE oldInterval
    IN  MeetResult(sinkInterval, oldInterval # sinkInterval)

Meet_widen(itv, op) == widen(itv[oprs[op].sink], eval(itv, op))

growth(oldInterval, newInterval) ==
    LET sinkInterval ==
            IF isUnknown(oldInterval) THEN newInterval
            ELSE IF newInterval.l < oldInterval.l
                 THEN (IF newInterval.u > oldInterval.u THEN MaxRange
                       ELSE Regular(Min, oldInterval.u))
            ELSE IF newInterval.u > oldInterval.u THEN Regular(oldInterval.l, Max)
            ELSE oldInterval
    IN  MeetResult(sinkInterval, oldInterval # sinkInterval)

Meet_growth(itv, op) == growth(itv[oprs[op].sink], eval(itv, op))

\* narrow as the intersection of the old and the new interval
narrow_intersects(old, newInterval) ==
    IF old.l # smax(old.l, newInterval.l) \/ old.u # smin(old.u, newInterval.u)
    THEN MeetResult(Regular(smax(old.l, newInterval.l), smin(old.u, newInterval.u)), TRUE)
    ELSE MeetResult(old, FALSE)

\* narrow without the replacement of a sentinel bound by a finite one
narrow_joins(old, newInterval) ==
    IF old.l # smin(old.l, newInterval.l) \/ old.u # smax(old.u, newInterval.u)
    THEN MeetResult(Regular(smin(old.l, newInterval.l), smax(old.u, newInterval.u)), TRUE)
    ELSE MeetResult(old, FALSE)

narrow(old, newInterval) ==
    LET oLower == old.l
        oUpper == old.u
        nLower == newInterval.l
        nUpper == newInterval.u
        lowerChanged == IF oLower = Min /\ nLower # Min THEN TRUE
                        ELSE oLower # smin(oLower, nLower)
        lower == IF oLower = Min /\ nLower # Min THEN nLower
                 ELSE smin(oLower, nLower)
        upperChanged == IF oUpper = Max /\ nUpper # Max THEN TRUE
                        ELSE oUpper # smax(oUpper, nUpper)
        upper == IF oUpper = Max /\ nUpper # Max THEN nUpper
                 ELSE smax(oUpper, nUpper)
    IN  IF lowerChanged \/ upperChanged
        THEN MeetResult(Regular(lower, upper), TRUE)
        ELSE MeetResult(old, FALSE)

\* narrow without the comparison with the old bounds
Meet_narrow_unguarded(itv, op) == MeetResult(eval(itv, op), TRUE)

Meet_narrow(itv, op) == narrow(itv[oprs[op].sink], eval(itv, op))

\* Meet::crop without the tests of the abstract state
crop_unsided(state, oldInterval, newInterval) ==
    LET cropLower == newInterval.l > oldInterval.l
        cropUpper == newInterval.u < oldInterval.u
    IN  IF cropLower \/ cropUpper
        THEN MeetResult(Regular(IF cropLower THEN newInterval.l ELSE oldInterval.l,
                                IF cropUpper THEN newInterval.u ELSE oldInterval.u),
                        TRUE)
        ELSE MeetResult(oldInterval, FALSE)

crop(state, oldInterval, newInterval) ==
    LET cropLower == state \in {"-", "?"} /\ newInterval.l > oldInterval.l
        cropUpper == state \in {"+", "?"} /\ newInterval.u < oldInterval.u
    IN  IF cropLower \/ cropUpper
        THEN MeetResult(Regular(IF cropLower THEN newInterval.l ELSE oldInterval.l,
                                IF cropUpper THEN newInterval.u ELSE oldInterval.u),
                        TRUE)
        ELSE MeetResult(oldInterval, FALSE)

Meet_crop(itv, op) ==
    crop(abstractState[oprs[op].sink], itv[oprs[op].sink], eval(itv, op))

storeAbstractState(r) ==
    IF r.l = Min THEN (IF r.u = Max THEN "?" ELSE "-")
    ELSE IF r.u = Max THEN "+"
    ELSE "0"

(***************************************************************************)
(* runOnFunction: the width, the graph, the initial intervals.             *)
(***************************************************************************)
Strategies == {"Cousot", "CropDFS"}

NoRange == [l |-> 0, u |-> 0, type |-> "Unknown"]

NoQuery == [v |-> 0, r |-> NoRange, asked |-> FALSE]

NoStart == [itv |-> EmptyFn, actv |-> {}]

GraphEmpty ==
    /\ vars = {}
    /\ oprs = <<>>
    /\ defMap = EmptyFn
    /\ useMap = EmptyFn
    /\ symbMap = EmptyFn
    /\ valuesBranchMap = EmptyFn
    /\ interval = EmptyFn
    /\ abstractState = EmptyFn
    /\ intersect = <<>>
    /\ unresolved = {}

NuutilaEmpty ==
    /\ dfs = EmptyFn
    /\ root = EmptyFn
    /\ inComponent = {}
    /\ components = EmptyFn
    /\ worklist = <<>>
    /\ index = 0
    /\ callStack = <<>>
    /\ pilha = <<>>

SolverEmpty ==
    /\ sccIter = <<>>
    /\ component = {}
    /\ compUseMap = EmptyFn
    /\ actv = {}
    /\ useList = {}
    /\ nIterations = 0
    /\ todo = {}
    /\ cropOps = {}
    /\ activeOps = {}
    /\ visitedOps = {}
    /\ cropping = FALSE
    /\ updStart = NoStart

RunEmpty ==
    /\ cblk = 0
    /\ cprev = 0
    /\ cenv = EmptyFn

\* the analysis part of the state while only the Range class is exercised
AnalysisIdle ==
    /\ prog = ProgNest
    /\ CGT = "Cousot"
    /\ pc = "idle"
    /\ GraphEmpty
    /\ NuutilaEmpty
    /\ SolverEmpty
    /\ RunEmpty
    /\ reply = NoQuery

Init ==
    /\ MAX_BIT_INT = 1
    /\ rop = "none"
    /\ rx = NoRange
    /\ ry = NoRange
    /\ rres = NoRange
    /\ total = 0
    /\ failed = 0
    /\ cousot = EmptyFn
    /\ prog \in Programs
    /\ CGT \in Strategies
    /\ pc = "start"
    /\ GraphEmpty
    /\ NuutilaEmpty
    /\ SolverEmpty
    /\ RunEmpty
    /\ reply = NoQuery

\* MAX_BIT_INT = getMaxBitWidth(F); updateMinMax(MAX_BIT_INT)
UpdateMinMax ==
    /\ pc = "start"
    /\ MAX_BIT_INT' = getMaxBitWidth(F)
    /\ pc' = "width"
    /\ UNCHANGED <<rop, rx, ry, rres, total, failed, cousot, prog, CGT, gvars, interval,
                   abstractState, intersect, unresolved, nvars, svars, cvars, reply>>

\* CG->buildGraph(F): every VarNode is constructed with the Unknown interval
BuildGraph ==
    /\ pc = "width"
    /\ LET G == buildGraph(F, EmptyGraph)
       IN  /\ vars' = G.vars
           /\ oprs' = G.oprs
           /\ defMap' = G.defMap
           /\ useMap' = G.useMap
           /\ valuesBranchMap' = G.valuesBranchMap
           /\ interval' = [v \in G.vars |-> UnknownRange]
           /\ abstractState' = [v \in G.vars |-> "uninit"]
           /\ intersect' = [i \in DOMAIN G.oprs |-> G.oprs[i].itv.range]
    /\ pc' = "graph"
    /\ UNCHANGED <<rvars, prog, CGT, symbMap, unresolved, nvars, svars, cvars, reply>>

\* CG->buildVarNodes()
BuildVarNodes ==
    /\ pc = "graph"
    /\ interval' = [v \in vars |-> VarNode_init(F, v, v \notin DOMAIN defMap)]
    /\ pc' = "nodes"
    /\ UNCHANGED <<rvars, prog, CGT, gvars, abstractState, intersect, unresolved,
                   nvars, svars, cvars, reply>>

isSymbolicUnary(op) == oprs[op].kind \in {"Unary", "Sigma"} /\ oprs[op].itv.symb

\* findIntervals, first statement
BuildSymbolicIntersectMap ==
    /\ pc = "nodes"
    /\ LET bounds == {oprs[op].itv.bound : op \in {o \in DOMAIN oprs : isSymbolicUnary(o)}}
       IN  symbMap' = [b \in bounds |->
                          {op \in DOMAIN oprs : isSymbolicUnary(op) /\ oprs[op].itv.bound = b}]
    /\ pc' = "symb"
    /\ UNCHANGED <<rvars, prog, CGT, vars, oprs, defMap, useMap, valuesBranchMap,
                   interval, abstractState, intersect, unresolved, nvars, svars,
                   cvars, reply>>

(***************************************************************************)
(* Nuutila: the constructor and the recursive visit, one activation record *)
(* per call.  A record holds the value visited, the uses still to iterate  *)
(* and (cur) the use whose sink is being visited by the call above it.     *)
(***************************************************************************)
addControlDependenceEdges_none == [v \in DOMAIN useMap |-> useMap[v]]

addControlDependenceEdges ==
    [v \in DOMAIN useMap |->
        IF v \in DOMAIN symbMap
        THEN useMap[v] \cup {ControlDep(op) : op \in symbMap[v]}
        ELSE useMap[v]]

delControlDependenceEdges_kept == [v \in DOMAIN useMap |-> useMap[v]]

delControlDependenceEdges == [v \in DOMAIN useMap |-> {e \in useMap[v] : ~e.cd}]

Frame(V, uses, cur) == [v |-> V, uses |-> uses, cur |-> cur]

\* Nuutila::Nuutila up to the loop that calls visit
NuutilaBegin ==
    /\ pc = "symb"
    /\ index' = 0
    /\ dfs' = [v \in vars |-> -1]
    /\ root' = [v \in vars |-> v]
    /\ useMap' = addControlDependenceEdges
    /\ pc' = "visit"
    /\ UNCHANGED <<rvars, prog, CGT, vars, oprs, defMap, symbMap, valuesBranchMap,
                   interval, abstractState, intersect, unresolved, inComponent,
                   components, worklist, callStack, pilha, svars, cvars, reply>>

\* the head of visit(V, ...)
enterVisit(V) ==
    /\ dfs' = [dfs EXCEPT ![V] = index]
    /\ index' = index + 1
    /\ root' = [root EXCEPT ![V] = V]

\* the constructor's loop: "if (dfs[V] < 0) { std::stack pilha; visit(V, pilha, useMap); }"
NuutilaCallVisit ==
    /\ pc = "visit"
    /\ callStack = <<>>
    /\ \E V \in vars :
          /\ dfs[V] < 0
          /\ enterVisit(V)
          /\ callStack' = <<Frame(V, useMap[V], {})>>
          /\ pilha' = <<>>
    /\ UNCHANGED <<rvars, prog, CGT, pc, gvars, interval, abstractState, intersect,
                   unresolved, inComponent, components, worklist, svars, cvars, reply>>

\* visit without the update of root[V]
rootAfterUse_kept(rt, inComp, V, name) == rt

\* "if (!inComponent.count(name) && dfs[root[V]] >= dfs[root[name]]) root[V] = root[name]"
rootAfterUse(rt, inComp, V, name) ==
    IF name \notin inComp /\ dfs[rt[V]] >= dfs[rt[name]]
    THEN [rt EXCEPT ![V] = rt[name]]
    ELSE rt

\* one iteration of visit's loop over the uses of V
NuutilaVisitUse ==
    /\ pc = "visit"
    /\ callStack # <<>>
    /\ LET n == Len(callStack)
           top == callStack[n]
       IN  /\ top.uses # {}
           /\ \E e \in top.uses :
                 LET name == sinkOf(e)
                 IN  IF dfs[name] < 0
                     THEN /\ enterVisit(name)
                          /\ callStack' = Append([callStack EXCEPT ![n].cur = {e}],
                                                 Frame(name, useMap[name], {}))
                     ELSE /\ root' = rootAfterUse(root, inComponent, top.v, name)
                          /\ callStack' = [callStack EXCEPT ![n].uses = @ \ {e}]
                          /\ UNCHANGED <<dfs, index>>
    /\ UNCHANGED <<rvars, prog, CGT, pc, gvars, interval, abstractState, intersect,
                   unresolved, inComponent, components, worklist, pilha, svars,
                   cvars, reply>>

\* the pop loop never entered: every node a component of its own
RECURSIVE popped_none(_, _)
popped_none(stack, V) == {}

\* the pop loop with its comparison turned around
RECURSIVE popped_less(_, _)
popped_less(stack, V) ==
    IF stack # <<>> /\ dfs[stack[Len(stack)]] < dfs[V]
    THEN {stack[Len(stack)]} \cup popped_less(SubSeq(stack, 1, Len(stack) - 1), V)
    ELSE {}

\* the nodes popped by "while (!stack.empty() && dfs[stack.top()] > dfs[V])"
RECURSIVE popped(_, _)
popped(stack, V) ==
    IF stack # <<>> /\ dfs[stack[Len(stack)]] > dfs[V]
    THEN {stack[Len(stack)]} \cup popped(SubSeq(stack, 1, Len(stack) - 1), V)
    ELSE {}

\* the second phase of visit(V, ...), the return, and the rest of the caller's
\* loop iteration
NuutilaVisitEnd ==
    /\ pc = "visit"
    /\ callStack # <<>>
    /\ LET n == Len(callStack)
           top == callStack[n]
           V == top.v
           SCC == {V} \cup popped(pilha, V)
           isRoot == root[V] = V
           inComp == IF isRoot THEN inComponent \cup SCC ELSE inComponent
       IN  /\ top.uses = {}
           /\ inComponent' = inComp
           /\ IF isRoot
              THEN /\ worklist' = Append(worklist, V)
                   /\ components' = (V :> SCC) @@ components
                   /\ pilha' = SubSeq(pilha, 1, Len(pilha) - (Cardinality(SCC) - 1))
              ELSE /\ pilha' = Append(pilha, V)
                   /\ UNCHANGED <<worklist, components>>
           /\ IF n = 1
              THEN /\ callStack' = <<>>
                   /\ UNCHANGED root
              ELSE LET caller == callStack[n - 1]
                   IN  /\ root' = rootAfterUse(root, inComp, caller.v, V)
                       /\ callStack' = [SubSeq(callStack, 1, n - 1) EXCEPT
                                           ![n - 1] = Frame(caller.v,
                                                            caller.uses \ caller.cur, {})]
    /\ UNCHANGED <<rvars, prog, CGT, pc, gvars, interval, abstractState, intersect,
                   unresolved, dfs, index, svars, cvars, reply>>

\* Nuutila::iterator walks the worklist from its back to its front
RECURSIVE Reverse(_)
Reverse(s) == IF s = <<>> THEN <<>> ELSE Append(Reverse(Tail(s)), Head(s))

\* the end of the constructor, and findIntervals' "nit = sccList.begin()".
\* Of sccList only worklist and components are read from here on; the model
\* keeps these two and lets go of dfs, root, index and inComponent.
NuutilaEnd ==
    /\ pc = "visit"
    /\ callStack = <<>>
    /\ \A V \in vars : dfs[V] >= 0
    /\ useMap' = delControlDependenceEdges
    /\ sccIter' = Reverse(worklist)
    /\ dfs' = EmptyFn
    /\ root' = EmptyFn
    /\ index' = 0
    /\ inComponent' = {}
    /\ pc' = "scc"
    /\ UNCHANGED <<rvars, prog, CGT, vars, oprs, defMap, symbMap, valuesBranchMap,
                   interval, abstractState, intersect, unresolved, components,
                   worklist, callStack, pilha, component, compUseMap, actv, useList,
                   nIterations, todo, cropOps, activeOps, visitedOps, cropping,
                   updStart, cvars, reply>>

(***************************************************************************)
(* findIntervals: the loop over the SCCs.                                  *)
(***************************************************************************)
\* the warmup bound of the bounded update
NUMBER_FIXED_ITERATIONS == 0

fixedIterations(size) == bitRec("or", size * 2, NUMBER_FIXED_ITERATIONS, 16)

buildUseMap(comp) ==
    [V \in comp |-> {e \in useMap[V] : sinkOf(e) \in comp}]

\* ConstraintGraph::fixIntersects(component): the intersects after the call
fixIntersects(comp) ==
    [op \in DOMAIN intersect |->
        IF oprs[op].itv.symb /\ oprs[op].itv.bound \in comp
           /\ oprs[op].itv.bound \in DOMAIN symbMap
           /\ op \in symbMap[oprs[op].itv.bound]
        THEN SymbInterval_fixIntersects(oprs[op].itv.pred,
                                        interval[oprs[op].itv.bound],
                                        interval[oprs[op].sink])
        ELSE intersect[op]]

\* "if (var->getRange().isUnknown()) var->setRange(Range(Min, Max))" over comp
promoteUnknown(comp) ==
    [v \in DOMAIN interval |->
        IF v \in comp /\ isUnknown(interval[v]) THEN MaxRange ELSE interval[v]]

generateActivesVars(comp) == {V \in comp : ~isConstantInt(prog, V)}

\* V->getName().startswith(sigmaString)
isSigmaName(V) ==
    \E i \in DOMAIN AllInsts(prog) :
        AllInsts(prog)[i].dst = V /\ AllInsts(prog)[i].sigma

\* the loop head: the next component; a component of one node is handled here
NextSCC ==
    /\ pc = "scc"
    /\ sccIter # <<>>
    /\ LET comp == components[Head(sccIter)]
       IN  /\ component' = comp
           /\ sccIter' = Tail(sccIter)
           /\ todo' = comp
           /\ IF Cardinality(comp) = 1
              THEN /\ intersect' = fixIntersects(comp)
                   /\ interval' = promoteUnknown(comp)
                   /\ pc' = "propagate"
                   /\ UNCHANGED compUseMap
              ELSE /\ compUseMap' = buildUseMap(comp)
                   /\ pc' = "entry1"
                   /\ UNCHANGED <<intersect, interval>>
    /\ UNCHANGED <<rvars, prog, CGT, gvars, abstractState, unresolved, nvars, actv,
                   useList, nIterations, cropOps, activeOps, visitedOps, cropping,
                   cvars, reply, updStart>>

\* one iteration of generateEntryPoints' loop over the component
GenerateEntryPoint ==
    /\ pc \in {"entry1", "entry2"}
    /\ \E V \in todo :
          LET resolve == /\ isSigmaName(V)
                         /\ V \in DOMAIN defMap
                         /\ oprs[defMap[V]].kind = "Sigma"
                         /\ defMap[V] \in unresolved
          IN  \E range \in {IF resolve THEN eval(interval, defMap[V]) ELSE interval[V]} :
                 /\ interval' = [interval EXCEPT ![V] = range]
                 /\ unresolved' = IF resolve THEN unresolved \ {defMap[V]}
                                   ELSE unresolved
                 /\ actv' = IF ~isUnknown(range) THEN actv \cup {V} ELSE actv
                 /\ todo' = todo \ {V}
    /\ UNCHANGED <<rvars, prog, CGT, pc, gvars, abstractState, intersect, nvars,
                   sccIter, component, compUseMap, useList, nIterations, cropOps,
                   activeOps, visitedOps, cropping, cvars, reply, updStart>>

\* generateEntryPoints returns; the update that follows starts
GenerateEntryPointsEnd ==
    /\ pc \in {"entry1", "entry2"}
    /\ todo = {}
    /\ IF pc = "entry1"
       THEN /\ pc' = "fixed"
            /\ nIterations' = fixedIterations(Cardinality(component))
       ELSE /\ pc' = "pre"
            /\ UNCHANGED nIterations
    /\ updStart' = [itv |-> interval, actv |-> actv]
    /\ UNCHANGED <<rvars, prog, CGT, gvars, interval, abstractState, intersect,
                   unresolved, nvars, sccIter, component, compUseMap, actv, useList,
                   todo, cropOps, activeOps, visitedOps, cropping, cvars, reply>>

\* update: "V = *actv.begin(); actv.erase(V); L = compUseMap.find(V)->second"
UpdatePop ==
    /\ pc \in {"fixed", "pre", "pos"}
    /\ useList = {}
    /\ \E V \in actv :
          /\ actv' = actv \ {V}
          /\ useList' = compUseMap[V]
    /\ UNCHANGED <<rvars, prog, CGT, pc, gvars, interval, abstractState, intersect,
                   unresolved, nvars, sccIter, component, compUseMap, nIterations,
                   todo, cropOps, activeOps, visitedOps, cropping, cvars, reply, updStart>>

\* the bounded update, one iteration of the loop over L
UpdateFixedMeet ==
    /\ pc = "fixed"
    /\ \E e \in useList :
          IF nIterations = 0
          THEN /\ actv' = {}
               /\ useList' = {}
               /\ pc' = "entry2"
               /\ todo' = component
               /\ UNCHANGED <<interval, nIterations>>
          ELSE \E m \in {Meet_fixed(interval, e.op)} :
                  /\ nIterations' = nIterations - 1
                  /\ interval' = [interval EXCEPT ![sinkOf(e)] = m.range]
                  /\ actv' = IF m.changed THEN actv \cup {sinkOf(e)} ELSE actv
                  /\ useList' = useList \ {e}
                  /\ UNCHANGED <<pc, todo>>
    /\ UNCHANGED <<rvars, prog, CGT, gvars, abstractState, intersect, unresolved,
                   nvars, sccIter, component, compUseMap, cropOps, activeOps,
                   visitedOps, cropping, cvars, reply, updStart>>

\* the meet handed to update by preUpdate / posUpdate
meetOf(phase, itv, op) ==
    CASE phase = "pre" /\ CGT = "Cousot"  -> Meet_widen(itv, op)
      [] phase = "pre" /\ CGT = "CropDFS" -> Meet_growth(itv, op)
      [] phase = "pos"                    -> Meet_narrow(itv, op)

\* update(compUseMap, actv, meet), one iteration of the loop over L
UpdateMeet ==
    /\ pc \in {"pre", "pos"}
    /\ \E e \in useList :
          \E m \in {meetOf(pc, interval, e.op)} :
             /\ interval' = [interval EXCEPT ![sinkOf(e)] = m.range]
             /\ actv' = IF m.changed THEN actv \cup {sinkOf(e)} ELSE actv
             /\ useList' = useList \ {e}
    /\ UNCHANGED <<rvars, prog, CGT, pc, gvars, abstractState, intersect, unresolved,
                   nvars, sccIter, component, compUseMap, nIterations, todo, cropOps,
                   activeOps, visitedOps, cropping, cvars, reply, updStart>>

\* the bounded update returns with an empty active set
UpdateFixedEnd ==
    /\ pc = "fixed"
    /\ useList = {}
    /\ actv = {}
    /\ pc' = "entry2"
    /\ todo' = component
    /\ UNCHANGED <<rvars, prog, CGT, gvars, interval, abstractState, intersect,
                   unresolved, nvars, sccIter, component, compUseMap, actv, useList,
                   nIterations, cropOps, activeOps, visitedOps, cropping, cvars, reply,
                   updStart>>

\* preUpdate returns: fixIntersects, the promotion of Unknown, generateActivesVars
\* and the head of posUpdate
PreUpdateEnd ==
    /\ pc = "pre"
    /\ useList = {}
    /\ actv = {}
    /\ intersect' = fixIntersects(component)
    /\ interval' = promoteUnknown(component)
    /\ actv' = generateActivesVars(component)
    /\ updStart' = IF CGT = "Cousot"
                   THEN [itv |-> promoteUnknown(component),
                         actv |-> generateActivesVars(component)]
                   ELSE NoStart
    /\ IF CGT = "Cousot"
       THEN /\ pc' = "pos"
            /\ UNCHANGED <<abstractState, cropOps>>
       ELSE /\ pc' = "crop"
            /\ abstractState' = [v \in DOMAIN abstractState |->
                                    IF v \in component
                                    THEN storeAbstractState(promoteUnknown(component)[v])
                                    ELSE abstractState[v]]
            /\ cropOps' = DOMAIN oprs
    /\ UNCHANGED <<rvars, prog, CGT, gvars, unresolved, nvars, sccIter, component,
                   compUseMap, useList, nIterations, todo, activeOps, visitedOps,
                   cropping, cvars, reply>>

\* Cousot::posUpdate returns
PosUpdateEnd ==
    /\ pc = "pos"
    /\ useList = {}
    /\ actv = {}
    /\ pc' = "propagate"
    /\ todo' = component
    /\ UNCHANGED <<rvars, prog, CGT, gvars, interval, abstractState, intersect,
                   unresolved, nvars, sccIter, component, compUseMap, actv, useList,
                   nIterations, cropOps, activeOps, visitedOps, cropping, cvars, reply,
                   updStart>>

\* CropDFS::posUpdate, one iteration of the loop over oprs; the head of crop
CropNext ==
    /\ pc = "crop"
    /\ ~cropping
    /\ \E op \in cropOps :
          /\ cropOps' = cropOps \ {op}
          /\ IF /\ oprs[op].sink \in component
                /\ oprs[op].kind \in {"Unary", "Sigma"}
                /\ (interval[oprs[op].sink].l # Min \/ interval[oprs[op].sink].u # Max)
             THEN /\ cropping' = TRUE
                  /\ activeOps' = {UseEdge(op)}
                  /\ visitedOps' = {}
             ELSE UNCHANGED <<cropping, activeOps, visitedOps>>
    /\ UNCHANGED <<rvars, prog, CGT, pc, gvars, interval, abstractState, intersect,
                   unresolved, nvars, sccIter, component, compUseMap, actv, useList,
                   nIterations, todo, cvars, reply, updStart>>

\* CropDFS::crop, one iteration of "while (!activeOps.empty())"
CropStep ==
    /\ pc = "crop"
    /\ cropping
    /\ \E e \in activeOps :
          IF sinkOf(e) \in visitedOps
          THEN /\ activeOps' = activeOps \ {e}
               /\ UNCHANGED <<interval, visitedOps>>
          ELSE /\ interval' = [interval EXCEPT ![sinkOf(e)] = Meet_crop(interval, e.op).range]
               /\ visitedOps' = visitedOps \cup {sinkOf(e)}
               /\ activeOps' = (activeOps \ {e}) \cup compUseMap[sinkOf(e)]
    /\ UNCHANGED <<rvars, prog, CGT, pc, gvars, abstractState, intersect, unresolved,
                   nvars, sccIter, component, compUseMap, actv, useList, nIterations,
                   todo, cropOps, cropping, cvars, reply, updStart>>

\* CropDFS::crop returns
CropDone ==
    /\ pc = "crop"
    /\ cropping
    /\ activeOps = {}
    /\ cropping' = FALSE
    /\ visitedOps' = {}
    /\ UNCHANGED <<rvars, prog, CGT, pc, gvars, interval, abstractState, intersect,
                   unresolved, nvars, sccIter, component, compUseMap, actv, useList,
                   nIterations, todo, cropOps, activeOps, cvars, reply, updStart>>

\* CropDFS::posUpdate returns; activeVars goes out of scope
CropEnd ==
    /\ pc = "crop"
    /\ ~cropping
    /\ cropOps = {}
    /\ pc' = "propagate"
    /\ todo' = component
    /\ actv' = {}
    /\ UNCHANGED <<rvars, prog, CGT, gvars, interval, abstractState, intersect,
                   unresolved, nvars, sccIter, component, compUseMap, useList,
                   nIterations, cropOps, activeOps, visitedOps, cropping, cvars, reply,
                   updStart>>

\* propagateToNextSCC, one iteration of the loop over the component
PropagateVar ==
    /\ pc = "propagate"
    /\ useList = {}
    /\ \E V \in todo :
          /\ todo' = todo \ {V}
          /\ useList' = useMap[V]
    /\ UNCHANGED <<rvars, prog, CGT, pc, gvars, interval, abstractState, intersect,
                   unresolved, nvars, sccIter, component, compUseMap, actv,
                   nIterations, cropOps, activeOps, visitedOps, cropping, cvars, reply,
                   updStart>>

\* propagateToNextSCC, one iteration of the loop over the uses of a variable
PropagateUse ==
    /\ pc = "propagate"
    /\ \E e \in useList :
          /\ interval' = [interval EXCEPT ![sinkOf(e)] = eval(interval, e.op)]
          /\ unresolved' = IF oprs[e.op].kind = "Sigma" /\ isUnknown(intersect[e.op])
                           THEN unresolved \cup {e.op} ELSE unresolved
          /\ useList' = useList \ {e}
    /\ UNCHANGED <<rvars, prog, CGT, pc, gvars, abstractState, intersect, nvars,
                   sccIter, component, compUseMap, actv, nIterations, todo, cropOps,
                   activeOps, visitedOps, cropping, cvars, reply, updStart>>

\* propagateToNextSCC returns; the loop over the SCCs goes on
PropagateEnd ==
    /\ pc = "propagate"
    /\ useList = {}
    /\ todo = {}
    /\ pc' = "scc"
    /\ component' = {}
    /\ compUseMap' = EmptyFn
    /\ updStart' = NoStart
    /\ UNCHANGED <<rvars, prog, CGT, gvars, interval, abstractState, intersect,
                   unresolved, nvars, sccIter, actv, useList, nIterations, todo,
                   cropOps, activeOps, visitedOps, cropping, cvars, reply>>

\* findIntervals returns: sccList goes out of scope
FindIntervalsEnd ==
    /\ pc = "scc"
    /\ sccIter = <<>>
    /\ pc' = "done"
    /\ worklist' = <<>>
    /\ components' = EmptyFn
    /\ nIterations' = 0
    /\ UNCHANGED <<rvars, prog, CGT, gvars, interval, abstractState, intersect,
                   unresolved, dfs, root, inComponent, index, callStack, pilha,
                   sccIter, component, compUseMap, actv, useList, todo, cropOps,
                   activeOps, visitedOps, cropping, cvars, reply, updStart>>

(***************************************************************************)
(* The client of the analysis: getRange, and an execution of the function  *)
(* on some arguments (two's complement at the width of the values).        *)
(***************************************************************************)
\* a value that is in no graph
NoValue == 0

GetRange ==
    /\ pc = "done"
    /\ \E v \in {NoValue} \cup DOMAIN prog.vals :
          reply' = [v |-> v, r |-> getRange(v), asked |-> TRUE]
    /\ pc' = "asked"
    /\ UNCHANGED <<rvars, prog, CGT, gvars, interval, abstractState, intersect,
                   unresolved, nvars, svars, cvars>>

concreteOp(opcode, a, b) ==
    CASE opcode = "Add"  -> apAdd(a, b)
      [] opcode = "Sub"  -> apSub(a, b)
      [] opcode = "Mul"  -> apMul(a, b)
      [] opcode = "UDiv" -> apUDiv(a, b)
      [] opcode = "SDiv" -> apSDiv(a, b)
      [] opcode = "URem" -> apURem(a, b)
      [] opcode = "SRem" -> apSRem(a, b)
      [] opcode = "Shl"  -> apShl(a, b)
      [] opcode = "LShr" -> apLShr(a, b)
      [] opcode = "AShr" -> apAShr(a, b)
      [] opcode = "And"  -> apAnd(a, b)
      [] opcode = "Or"   -> apOr(a, b)
      [] opcode = "Xor"  -> apXor(a, b)

icmp(pred, a, b) ==
    CASE pred = "EQ"  -> a = b
      [] pred = "NE"  -> a # b
      [] pred = "SLT" -> a < b
      [] pred = "SLE" -> a <= b
      [] pred = "SGT" -> a > b
      [] pred = "SGE" -> a >= b

execInst(env, I, prev) ==
    IF I.opc = "PHI"
    THEN LET i == CHOOSE j \in DOMAIN I.inb : I.inb[j] = prev
         IN  (I.dst :> env[I.args[i]]) @@ env
    ELSE (I.dst :> concreteOp(I.opc, env[I.args[1]], env[I.args[2]])) @@ env

RECURSIVE execInsts(_, _, _, _)
execInsts(env, insts, i, prev) ==
    IF i > Len(insts) THEN env
    ELSE execInsts(execInst(env, insts[i], prev), insts, i + 1, prev)

RunStart ==
    /\ pc = "done"
    /\ LET vals == prog.vals
           args == {v \in DOMAIN vals : vals[v].k = "arg"}
           consts == {v \in DOMAIN vals : vals[v].k = "const"}
       IN  \E a \in [args -> Min..Max] :
              cenv' = [v \in args \cup consts |->
                          IF v \in args THEN a[v] ELSE vals[v].c]
    /\ cblk' = 1
    /\ cprev' = 0
    /\ pc' = "run"
    /\ UNCHANGED <<rvars, prog, CGT, gvars, interval, abstractState, intersect,
                   unresolved, nvars, svars, reply>>

ExecBlock ==
    /\ pc = "run"
    /\ LET B == prog.blocks[cblk]
           env == execInsts(cenv, B.insts, 1, cprev)
           term == B.term
       IN  /\ cenv' = env
           /\ cprev' = cblk
           /\ CASE term.t = "ret" -> cblk' = 0 /\ pc' = "halt"
                [] term.t = "br"  -> cblk' = term.tb /\ pc' = "run"
                [] term.t = "condbr" ->
                       /\ cblk' = IF icmp(term.pred, env[term.op0], env[term.op1])
                                  THEN term.tb ELSE term.fb
                       /\ pc' = "run"
    /\ UNCHANGED <<rvars, prog, CGT, gvars, interval, abstractState, intersect,
                   unresolved, nvars, svars, reply>>

\* the steps of findIntervals
FindIntervals ==
    \/ BuildSymbolicIntersectMap
    \/ NuutilaBegin
    \/ NuutilaCallVisit
    \/ NuutilaVisitUse
    \/ NuutilaVisitEnd
    \/ NuutilaEnd
    \/ NextSCC
    \/ GenerateEntryPoint
    \/ GenerateEntryPointsEnd
    \/ UpdatePop
    \/ UpdateFixedMeet
    \/ UpdateFixedEnd
    \/ UpdateMeet
    \/ PreUpdateEnd
    \/ PosUpdateEnd
    \/ CropNext
    \/ CropStep
    \/ CropDone
    \/ CropEnd
    \/ PropagateVar
    \/ PropagateUse
    \/ PropagateEnd
    \/ FindIntervalsEnd

Next ==
    \/ UpdateMinMax
    \/ BuildGraph
    \/ BuildVarNodes
    \/ FindIntervals
    \/ GetRange
    \/ RunStart
    \/ ExecBlock

Spec == Init /\ [][Next]_allvars

(***************************************************************************)
(* The analysis alone, on the loops that count from 1 towards 5 by 2, on  *)
(* a loop whose warmup converges and on the loop with a symbolic bound.    *)
(* findIntervals is straight-line code on one thread: once called it takes *)
(* its next step whenever it has one.                                      *)
(***************************************************************************)
TermPrograms ==
    {ProgLoop(1, pred, 5, opc, 2) : pred \in LoopPreds, opc \in LoopOpcodes}
        \cup {ProgLoop(0, "SLT", 5, "Mul", 2), ProgSymLoop}

TermInit == Init /\ prog \in TermPrograms

Analyse ==
    \/ UpdateMinMax
    \/ BuildGraph
    \/ BuildVarNodes
    \/ FindIntervals

TermSpec == TermInit /\ [][Analyse]_allvars /\ WF_allvars(FindIntervals)

(***************************************************************************)
(* update run in one fixed order: the smallest value is popped, the        *)
(* operations of a use list are met by ascending index.                    *)
(***************************************************************************)
firstUse(list) == CHOOSE e \in list : \A f \in list : e.op <= f.op

RECURSIVE RefUpdate(_, _, _, _)
RefUpdate(phase, itv, act, list) ==
    IF list # {}
    THEN LET e == firstUse(list)
             m == meetOf(phase, itv, e.op)
         IN  RefUpdate(phase, [itv EXCEPT ![sinkOf(e)] = m.range],
                       IF m.changed THEN act \cup {sinkOf(e)} ELSE act,
                       list \ {e})
    ELSE IF act = {} THEN itv
    ELSE RefUpdate(phase, itv, act \ {SetMin(act)}, compUseMap[SetMin(act)])

RECURSIVE RefUpdateFixed(_, _, _, _)
RefUpdateFixed(n, itv, act, list) ==
    IF list # {}
    THEN IF n = 0 THEN itv
         ELSE LET e == firstUse(list)
                  m == Meet_fixed(itv, e.op)
              IN  RefUpdateFixed(n - 1, [itv EXCEPT ![sinkOf(e)] = m.range],
                                 IF m.changed THEN act \cup {sinkOf(e)} ELSE act,
                                 list \ {e})
    ELSE IF act = {} THEN itv
    ELSE RefUpdateFixed(n, itv, act \ {SetMin(act)}, compUseMap[SetMin(act)])

\* the bounded update has just returned
fixedReturned == pc = "entry2" /\ todo = component

\* update(compUseMap, actv, meet) is about to return
updateReturns == pc \in {"pre", "pos"} /\ actv = {} /\ useList = {}

(***************************************************************************)
(* The analysis of the scenario programs, at the type width ScenarioWidth  *)
(* (wide enough for the constants 100 and 255).                            *)
(***************************************************************************)
ScenarioWidth == 10

\* the function P with every value and instruction of the type width w
atWidth(P, w) ==
    [vals   |-> [i \in DOMAIN P.vals |-> [P.vals[i] EXCEPT !.bw = w]],
     blocks |-> [b \in DOMAIN P.blocks |->
                    [P.blocks[b] EXCEPT !.insts =
                        [k \in DOMAIN P.blocks[b].insts |->
                            [P.blocks[b].insts[k] EXCEPT !.bw = w]]]]]

\* int x = 10; while (x < 100) x++;
\*   1: const 10   2: const 100   3: const 1   4: x at the header
\*   5: x in the body   6: x + 1   7: x at the exit
ProgScenario1 == atWidth(ProgLoop(10, "SLT", 100, "Add", 1), ScenarioWidth)

\* int s = 0; for (i = 0; i < 10; i++) s = s + i;
\*   1: const 0   2: const 10   3: const 1   4: i at the header   5: s at the header
\*   6: i in the body   7: s + i   8: i + 1   9: i at the exit
ProgScenario4 ==
    atWidth(
        [vals |-> <<Val("const", 0), Val("const", 10), Val("const", 1), Val("inst", 0),
                    Val("inst", 0), Val("inst", 0), Val("inst", 0), Val("inst", 0),
                    Val("inst", 0)>>,
         blocks |-> <<
            Block(<<>>, Br(2)),
            Block(<<Phi(4, <<1, 8>>, <<1, 3>>), Phi(5, <<1, 7>>, <<1, 3>>)>>,
                  CondBr("SLT", 4, 2, 3, 4)),
            Block(<<Sigma(6, 4, 2), Inst(7, "Add", <<5, 6>>), Inst(8, "Add", <<6, 3>>)>>,
                  Br(2)),
            Block(<<Sigma(9, 4, 2)>>, Ret) >>],
        ScenarioWidth)

\* int m = input() & 0xFF;
\*   1: input()   2: const 255   3: m
ProgScenario5 ==
    atWidth(
        [vals |-> <<Val("arg", 0), Val("const", 255), Val("inst", 0)>>,
         blocks |-> << Block(<<Inst(3, "And", <<1, 2>>)>>, Ret) >>],
        ScenarioWidth)

\* x = 0; while (x < 5) x = x * 2;  (the bounded warmup reaches its fixpoint)
ProgConverge == atWidth(ProgLoop(0, "SLT", 5, "Mul", 2), ScenarioWidth)

Scenarios == {ProgScenario1, ProgScenario4, ProgScenario5, ProgConverge}

ScenInit ==
    /\ MAX_BIT_INT = 1
    /\ rop = "none"
    /\ rx = NoRange
    /\ ry = NoRange
    /\ rres = NoRange
    /\ total = 0
    /\ failed = 0
    /\ cousot = EmptyFn
    /\ prog \in Scenarios
    /\ CGT \in Strategies
    /\ pc = "start"
    /\ GraphEmpty
    /\ NuutilaEmpty
    /\ SolverEmpty
    /\ RunEmpty
    /\ reply = NoQuery

ScenSpec == ScenInit /\ [][Analyse]_allvars

(***************************************************************************)
(* Programs whose branches compare two variables: the sigmas they guard    *)
(* hold symbolic intersects, bounded by a VarNode of an earlier SCC        *)
(* (ProgSymLoop, ProgCmp) or of the sigma's own SCC (ProgTwoVars).         *)
(***************************************************************************)
\* i = 0; j = 5; while (i < j) { i = i + 1; j = j - 1; }
\*   1: const 0   2: const 5   3: const 1   4: i at the header
\*   5: j at the header   6: i in the body   7: j in the body
\*   8: i + 1     9: j - 1     10: i at the exit
ProgTwoVars ==
    [vals |-> <<Val("const", 0), Val("const", 5), Val("const", 1), Val("inst", 0),
                Val("inst", 0), Val("inst", 0), Val("inst", 0), Val("inst", 0),
                Val("inst", 0), Val("inst", 0)>>,
     blocks |-> <<
        Block(<<>>, Br(2)),
        Block(<<Phi(4, <<1, 8>>, <<1, 3>>), Phi(5, <<2, 9>>, <<1, 3>>)>>,
              CondBr("SLT", 4, 5, 3, 4)),
        Block(<<Sigma(6, 4, 2), Sigma(7, 5, 2), Inst(8, "Add", <<6, 3>>),
                Inst(9, "Sub", <<7, 3>>)>>, Br(2)),
        Block(<<Sigma(10, 4, 2)>>, Ret) >>]

SymbPrograms ==
    {ProgSymLoop, ProgTwoVars, ProgCmp, ProgLoop(0, "SLT", 5, "Mul", 2)}

SymbInit ==
    /\ MAX_BIT_INT = 1
    /\ rop = "none"
    /\ rx = NoRange
    /\ ry = NoRange
    /\ rres = NoRange
    /\ total = 0
    /\ failed = 0
    /\ cousot = EmptyFn
    /\ prog \in SymbPrograms
    /\ CGT \in Strategies
    /\ pc = "start"
    /\ GraphEmpty
    /\ NuutilaEmpty
    /\ SolverEmpty
    /\ RunEmpty
    /\ reply = NoQuery

SymbSpec == SymbInit /\ [][Analyse]_allvars

(***************************************************************************)
(* InterProceduralRA<CGT>::runOnModule.  A module is a record              *)
(*   [vals, blocks, funcs]: the blocks of its functions numbered through,  *)
(*   funcs[i] = [args, void, first, last, uses]: the formal parameters,    *)
(*   whether the return type is void, the blocks first..last of the        *)
(*   function, and its uses as callee, [caller, actuals] each.             *)
(***************************************************************************)
RetVal(v) == [t |-> "ret", pred |-> "none", op0 |-> v, op1 |-> 0, tb |-> 0, fb |-> 0]

Module(P, funcs) == [vals |-> P.vals, blocks |-> P.blocks, funcs |-> funcs]

\* buildGraph(F) for the function of the blocks b..last of the module M
RECURSIVE buildValueMapsIn(_, _, _, _)
buildValueMapsIn(M, G, b, last) ==
    IF b > last THEN G
    ELSE buildValueMapsIn(M, buildValueBranchMap(M, G, M.blocks[b].term), b + 1, last)

RECURSIVE buildGraphIn(_, _, _, _)
buildGraphIn(M, G, b, last) ==
    IF b > last THEN G
    ELSE buildGraphIn(M, buildBlockOps(G, M.blocks[b].insts, 1, b), b + 1, last)

buildFunctionGraph(M, fn, G) ==
    buildGraphIn(M, buildValueMapsIn(M, G, fn.first, fn.last), fn.first, fn.last)

\* the return values of the function, in block order, each once
RECURSIVE returnValues(_, _, _, _)
returnValues(M, b, last, seen) ==
    IF b > last THEN seen
    ELSE LET term == M.blocks[b].term
         IN  returnValues(M, b + 1, last,
                 IF term.t = "ret" /\ term.op0 \notin SeqRange(seen)
                 THEN Append(seen, term.op0) ELSE seen)

\* new PhiOp(new BasicInterval(), sink, NULL, Instruction::PHI) with its sources
matcherOp(M, sink, srcs) ==
    [kind |-> "Phi", sink |-> sink, srcs |-> srcs, opcode |-> "PHI",
     bw |-> M.vals[sink].bw, itv |-> BasicInterval(MaxRange)]

\* the matchers of the formal parameters i..: the sources of the matcher of a
\* formal are the actuals at its position, one of each use of the function
RECURSIVE matchParameters(_, _, _, _)
matchParameters(M, fn, G, i) ==
    IF i > Len(fn.args) THEN G
    ELSE LET actuals == [u \in DOMAIN fn.uses |-> fn.uses[u].actuals[i]]
             G1 == addVarNodes(addVarNode(G, fn.args[i]), actuals)
         IN  matchParameters(M, fn, insertOp(G1, matcherOp(M, fn.args[i], actuals)), i + 1)

\* the PhiOp of each caller from u on: its sources are the return values
RECURSIVE matchReturnValues(_, _, _, _, _)
matchReturnValues(M, fn, G, returnvars, u) ==
    IF u > Len(fn.uses) THEN G
    ELSE LET to == fn.uses[u].caller
         IN  matchReturnValues(M, fn,
                 insertOp(addVarNode(G, to), matcherOp(M, to, returnvars)),
                 returnvars, u + 1)

MatchParametersAndReturnValues(M, fn, G) ==
    IF fn.uses = <<>> THEN G
    ELSE LET returnvars == IF fn.void THEN <<>>
                           ELSE returnValues(M, fn.first, fn.last, <<>>)
             G1 == addVarNodes(matchParameters(M, fn, G, 1), returnvars)
         IN  IF fn.void THEN G1 ELSE matchReturnValues(M, fn, G1, returnvars, 1)

\* the loop of runOnModule over the functions f.. of the module
RECURSIVE buildModuleGraph(_, _, _)
buildModuleGraph(M, G, f) ==
    IF f > Len(M.funcs) THEN G
    ELSE buildModuleGraph(M,
             MatchParametersAndReturnValues(M, M.funcs[f],
                 buildFunctionGraph(M, M.funcs[f], G)),
             f + 1)

\* int f(int p) { return p + 1; }  int main() { f(10); f(20); return 0; }
\*   1: p   2: const 1   3: p + 1   4: const 10   5: const 20
\*   6: f(10)   7: f(20)   8: const 0
ProgScenario6 ==
    Module(
        atWidth(
            [vals |-> <<Val("arg", 0), Val("const", 1), Val("inst", 0), Val("const", 10),
                        Val("const", 20), Val("inst", 0), Val("inst", 0), Val("const", 0)>>,
             blocks |-> <<
                Block(<<Inst(3, "Add", <<1, 2>>)>>, RetVal(3)),
                Block(<<Inst(6, "Call", <<4>>), Inst(7, "Call", <<5>>)>>, RetVal(8)) >>],
            ScenarioWidth),
        << [args |-> <<1>>, void |-> FALSE, first |-> 1, last |-> 1,
            uses |-> << [caller |-> 6, actuals |-> <<4>>],
                        [caller |-> 7, actuals |-> <<5>>] >>],
           [args |-> <<>>, void |-> FALSE, first |-> 2, last |-> 2, uses |-> <<>>] >>)

\* a module of the one function P, which nothing calls
unusedFunction(P) ==
    Module(P, << [args |-> <<>>, void |-> TRUE, first |-> 1, last |-> Len(P.blocks),
                  uses |-> <<>>] >>)

Modules == {ProgScenario6, unusedFunction(ProgScenario1), unusedFunction(ProgConverge)}

InterInit ==
    /\ MAX_BIT_INT = 1
    /\ rop = "none"
    /\ rx = NoRange
    /\ ry = NoRange
    /\ rres = NoRange
    /\ total = 0
    /\ failed = 0
    /\ cousot = EmptyFn
    /\ prog \in Modules
    /\ CGT \in Strategies
    /\ pc = "start"
    /\ GraphEmpty
    /\ NuutilaEmpty
    /\ SolverEmpty
    /\ RunEmpty
    /\ reply = NoQuery

\* the loop "CG->buildGraph(*I); MatchParametersAndReturnValues(*I, *CG);"
BuildModuleGraph ==
    /\ pc = "width"
    /\ \E G \in {buildModuleGraph(prog, EmptyGraph, 1)} :
           /\ vars' = G.vars
           /\ oprs' = G.oprs
           /\ defMap' = G.defMap
           /\ useMap' = G.useMap
           /\ valuesBranchMap' = G.valuesBranchMap
           /\ interval' = [v \in G.vars |-> UnknownRange]
           /\ abstractState' = [v \in G.vars |-> "uninit"]
           /\ intersect' = [i \in DOMAIN G.oprs |-> G.oprs[i].itv.range]
    /\ pc' = "graph"
    /\ UNCHANGED <<rvars, prog, CGT, symbMap, unresolved, nvars, svars, cvars, reply>>

InterNext ==
    \/ UpdateMinMax
    \/ BuildModuleGraph
    \/ BuildVarNodes
    \/ FindIntervals

InterSpec == InterInit /\ [][InterNext]_allvars

(***************************************************************************)
(* The two registered intra-procedural passes run on the same function:    *)
(* ra-intra-cousot first, whose final intervals are kept in cousot, then   *)
(* ra-intra-crop from a fresh ConstraintGraph.                             *)
(***************************************************************************)
BothInit == Init /\ prog \in TermPrograms /\ CGT = "Cousot"

RunCropDFS ==
    /\ pc = "done"
    /\ CGT = "Cousot"
    /\ cousot' = interval
    /\ CGT' = "CropDFS"
    /\ pc' = "start"
    /\ vars' = {}
    /\ oprs' = <<>>
    /\ defMap' = EmptyFn
    /\ useMap' = EmptyFn
    /\ symbMap' = EmptyFn
    /\ valuesBranchMap' = EmptyFn
    /\ interval' = EmptyFn
    /\ abstractState' = EmptyFn
    /\ intersect' = <<>>
    /\ unresolved' = {}
    /\ dfs' = EmptyFn
    /\ root' = EmptyFn
    /\ inComponent' = {}
    /\ index' = 0
    /\ callStack' = <<>>
    /\ pilha' = <<>>
    /\ sccIter' = <<>>
    /\ component' = {}
    /\ compUseMap' = EmptyFn
    /\ actv' = {}
    /\ useList' = {}
    /\ todo' = {}
    /\ cropOps' = {}
    /\ activeOps' = {}
    /\ visitedOps' = {}
    /\ cropping' = FALSE
    /\ updStart' = NoStart
    /\ UNCHANGED <<MAX_BIT_INT, rop, rx, ry, rres, total, failed, prog, components,
                   worklist, nIterations, cvars, reply>>

BothNext ==
    \/ UpdateMinMax
    \/ BuildGraph
    \/ BuildVarNodes
    \/ FindIntervals
    \/ RunCropDFS

BothSpec == BothInit /\ [][BothNext]_allvars

(***************************************************************************)
(* Lattice harness: the operands are drawn from every interval of the      *)
(* width RangeWidth; one action per Range operation applies it.            *)
(***************************************************************************)
RangeWidth == 3

RegularRanges == {Regular(lb, ub) : <<lb, ub>> \in {p \in (Min..Max) \X (Min..Max) : p[1] <= p[2]}}

AllRanges == RegularRanges \cup {UnknownRange, EmptyRange}

\* a is contained in b (as sets of integers; Empty is contained in everything)
subRange(a, b) == isEmpty(a) \/ (isRegular(a) /\ isRegular(b) /\ b.l <= a.l /\ a.u <= b.u)

RInit ==
    /\ MAX_BIT_INT = RangeWidth
    /\ AnalysisIdle
    /\ rop = "none"
    /\ rx \in AllRanges
    /\ ry \in AllRanges
    /\ rres = UnknownRange
    /\ total = 0
    /\ failed = 0
    /\ cousot = EmptyFn

ApplyBinaryOp(opcode) ==
    /\ rop = "none"
    /\ isRegular(rx) /\ isRegular(ry)
    /\ rop' = opcode
    /\ rres' = evalOpcode(opcode, rx, ry)
    /\ UNCHANGED <<MAX_BIT_INT, rx, ry, total, failed, cousot, avars>>

ApplyIntersectWith ==
    /\ rop = "none"
    /\ rop' = "intersectWith"
    /\ rres' = intersectWith(rx, ry)
    /\ UNCHANGED <<MAX_BIT_INT, rx, ry, total, failed, cousot, avars>>

ApplyUnionWith ==
    /\ rop = "none"
    /\ rop' = "unionWith"
    /\ rres' = unionWith(rx, ry)
    /\ UNCHANGED <<MAX_BIT_INT, rx, ry, total, failed, cousot, avars>>

\* Range::srem called on the object itself (a public method: operands of
\* every kind)
ApplySRem ==
    /\ rop = "none"
    /\ rop' = "srem"
    /\ rres' = srem(rx, ry)
    /\ UNCHANGED <<MAX_BIT_INT, rx, ry, total, failed, cousot, avars>>

\* the predicates a SymbInterval is asked to resolve: the five of the switch
\* and two of its default case
FixPredicates == {"EQ", "SLE", "SLT", "SGE", "SGT", "NE", "ULT"}

\* SymbInterval::fixIntersects on a bound holding rx and a sink holding ry
ApplyFixIntersects(pred) ==
    /\ rop = "none"
    /\ rop' = pred
    /\ rres' = SymbInterval_fixIntersects(pred, rx, ry)
    /\ UNCHANGED <<MAX_BIT_INT, rx, ry, total, failed, cousot, avars>>

RNext ==
    \/ \E opcode \in BinaryOpcodes : ApplyBinaryOp(opcode)
    \/ ApplySRem
    \/ \E pred \in FixPredicates : ApplyFixIntersects(pred)
    \/ ApplyIntersectWith
    \/ ApplyUnionWith

RangeSpec == RInit /\ [][RNext]_allvars

(***************************************************************************)
(* RangeUnitTest::runOnModule: the width comes from the module the pass    *)
(* runs on (getMaxBitWidth returns at least 1); then the assertions run in *)
(* the order of the source, each counting in total and, when the Range     *)
(* returned differs from the expected one, in failed.                      *)
(***************************************************************************)
UnitMaxWidth == 8

UnitWidths == 1..UnitMaxWidth

\* the shared objects of the test and the operand Range(Zero, Min-50)
testRange(name) ==
    CASE name = "unknown" -> Range(Min, Max, "Unknown")
      [] name = "empty"   -> Range(Min, Max, "Empty")
      [] name = "zero"    -> Regular(Zero, Zero)
      [] name = "infy"    -> Regular(Min, Max)
      [] name = "pos"     -> Regular(Zero, Max)
      [] name = "neg"     -> Regular(Min, Zero)
      [] name = "Min-50"  -> Regular(Zero, apSub(Min, 50))

\* the assertions: <<operation, op1, op2, expected>>
UnitTests ==
    << <<"Add", "infy", "infy", "infy">>,
       <<"Add", "zero", "infy", "infy">>,
       <<"Add", "zero", "zero", "zero">>,
       <<"Add", "neg", "zero", "neg">>,
       <<"Add", "neg", "infy", "infy">>,
       <<"Add", "neg", "neg", "neg">>,
       <<"Add", "pos", "zero", "pos">>,
       <<"Add", "pos", "infy", "infy">>,
       <<"Add", "pos", "neg", "infy">>,
       <<"Add", "pos", "pos", "pos">>,
       <<"Add", "Min-50", "Min-50", "unknown">>,
       <<"Sub", "infy", "infy", "infy">>,
       <<"Sub", "infy", "zero", "infy">>,
       <<"Sub", "infy", "pos", "infy">>,
       <<"Sub", "infy", "neg", "infy">>,
       <<"Sub", "zero", "zero", "zero">>,
       <<"Sub", "zero", "infy", "infy">>,
       <<"Sub", "zero", "pos", "neg">>,
       <<"Sub", "zero", "neg", "pos">>,
       <<"Sub", "pos", "zero", "pos">>,
       <<"Sub", "pos", "infy", "infy">>,
       <<"Sub", "pos", "neg", "pos">>,
       <<"Sub", "pos", "pos", "infy">>,
       <<"Sub", "neg", "zero", "neg">>,
       <<"Sub", "neg", "infy", "infy">>,
       <<"Sub", "neg", "neg", "infy">>,
       <<"Sub", "neg", "pos", "neg">>,
       <<"Mul", "infy", "infy", "infy">>,
       <<"Mul", "zero", "infy", "infy">>,
       <<"Mul", "zero", "zero", "zero">>,
       <<"Mul", "neg", "zero", "zero">>,
       <<"Mul", "neg", "infy", "infy">>,
       <<"Mul", "neg", "neg", "pos">>,
       <<"Mul", "pos", "zero", "zero">>,
       <<"Mul", "pos", "infy", "infy">>,
       <<"Mul", "pos", "neg", "neg">>,
       <<"Mul", "pos", "pos", "pos">> >>

UnitInit ==
    /\ MAX_BIT_INT = 1
    /\ rop = "none"
    /\ rx = NoRange
    /\ ry = NoRange
    /\ rres = NoRange
    /\ total = 0
    /\ failed = 0
    /\ cousot = EmptyFn
    /\ prog = ProgNest
    /\ CGT = "Cousot"
    /\ pc = "test"
    /\ GraphEmpty
    /\ NuutilaEmpty
    /\ SolverEmpty
    /\ RunEmpty
    /\ reply = NoQuery

\* MAX_BIT_INT = getMaxBitWidth(M); updateMinMax(MAX_BIT_INT)
UnitStart ==
    /\ pc = "test"
    /\ \E w \in UnitWidths : MAX_BIT_INT' = w
    /\ pc' = "asserts"
    /\ UNCHANGED <<rop, rx, ry, rres, total, failed, cousot, prog, CGT, gvars, interval,
                   abstractState, intersect, unresolved, nvars, svars, cvars, reply>>

\* the next ASSERT_TRUE(print_op, op, op1, op2, res)
ASSERT_TRUE ==
    /\ pc = "asserts"
    /\ total < Len(UnitTests)
    /\ \E t \in {UnitTests[total + 1]} :
          /\ rop' = t[1]
          /\ rx' = testRange(t[2])
          /\ ry' = testRange(t[3])
          /\ rres' = evalOpcode(t[1], testRange(t[2]), testRange(t[3]))
          /\ failed' = IF evalOpcode(t[1], testRange(t[2]), testRange(t[3])) # testRange(t[4])
                       THEN failed + 1 ELSE failed
    /\ total' = total + 1
    /\ UNCHANGED <<MAX_BIT_INT, cousot, avars>>

UnitNext == UnitStart \/ ASSERT_TRUE

UnitSpec == UnitInit /\ [][UnitNext]_allvars

(***************************************************************************)
(* The claims about the analysis, under Spec and TermSpec.                 *)
(***************************************************************************)
inRange(r, x) ==
    CASE isRegular(r) -> r.l <= x /\ x <= r.u
      [] isEmpty(r)   -> FALSE
      [] isUnknown(r) -> TRUE

\* C1: after findIntervals, every value a variable takes in an execution of the
\* function lies inside the interval of its VarNode.
C1_Sound ==
    pc \in {"run", "halt"} =>
        \A v \in DOMAIN cenv \cap vars : inRange(interval[v], cenv[v])

\* C2: findIntervals, once called, returns, whatever is popped at each step.
C2_Terminates == (pc = "nodes") ~> (pc = "done")

\* findIntervals has returned after solving a component that holds a loop
C2_Witness ==
    /\ pc = "done"
    /\ \E op, sg \in DOMAIN oprs :
          /\ oprs[op].kind = "Phi"
          /\ oprs[sg].kind = "Sigma"
          /\ oprs[sg].srcs[1] = oprs[op].sink
          /\ isRegular(interval[oprs[op].sink])

\* the meet posUpdate applies
postMeet(op) ==
    IF CGT = "Cousot" THEN Meet_narrow(interval, op) ELSE Meet_crop(interval, op)

\* C3: once findIntervals has returned, applying the post-phase meet to every
\* operation of the graph changes no interval.
C3_Idempotent ==
    pc = "done" => \A op \in DOMAIN oprs : ~postMeet(op).changed

rootsOf(V) == {r \in DOMAIN components : V \in components[r]}

\* C4: when findIntervals starts on an SCC, every other SCC that holds a source
\* of an operation into it has been processed already.
C4_SourcesFirst ==
    (pc = "scc" /\ sccIter # <<>>) =>
        LET S == components[Head(sccIter)]
            later == UNION {components[r] : r \in SeqRange(Tail(sccIter))}
        IN  \A op \in DOMAIN oprs :
                oprs[op].sink \in S =>
                    \A src \in SeqRange(oprs[op].srcs) : src \in S \/ src \notin later

C4_Witness ==
    /\ pc = "scc"
    /\ sccIter # <<>>
    /\ Cardinality(components[Head(sccIter)]) > 1
    /\ \E op \in DOMAIN oprs :
          /\ oprs[op].sink \in components[Head(sccIter)]
          /\ \E src \in SeqRange(oprs[op].srcs) : src \notin components[Head(sccIter)]

\* the values reached from the set R along the edges of useMap
RECURSIVE reachFrom(_)
reachFrom(R) ==
    LET R1 == R \cup {sinkOf(e) : e \in UNION {useMap[v] : v \in R}}
    IN  IF R1 = R THEN R ELSE reachFrom(R1)

reaches(a, b) == b \in reachFrom({a})

visitsDone == pc = "visit" /\ callStack = <<>> /\ \A V \in vars : dfs[V] >= 0

\* C5: the components are exactly the strongly connected components of the use
\* edges plus the control-dependence edges, every VarNode is in exactly one of
\* them, no root is twice in the worklist, and no SCC is processed twice.
C5_ExactSCCs ==
    /\ visitsDone =>
          /\ \A i, j \in DOMAIN worklist : worklist[i] = worklist[j] => i = j
          /\ SeqRange(worklist) = DOMAIN components
          /\ \A v \in vars : Cardinality(rootsOf(v)) = 1
          /\ \A r \in DOMAIN components :
                components[r] = {v \in vars : reaches(r, v) /\ reaches(v, r)}
    /\ pc \in {"scc", "entry1", "fixed", "entry2", "pre", "pos", "crop", "propagate"} =>
          /\ \A i, j \in DOMAIN sccIter : sccIter[i] = sccIter[j] => i = j
          /\ \A i \in DOMAIN sccIter : components[sccIter[i]] \cap component = {}

C5_Witness ==
    /\ visitsDone
    /\ \E r \in DOMAIN components : Cardinality(components[r]) > 1
    /\ \E v \in DOMAIN useMap : \E e \in useMap[v] : e.cd

\* C6: getRange(v) is the current interval of v's VarNode when v is in the
\* graph, and Unknown otherwise.
C6_GetRange ==
    reply.asked =>
        reply.r = IF reply.v \in vars THEN interval[reply.v] ELSE UnknownRange

\* C7: the intervals an update leaves do not depend on which value is popped
\* nor on the order of a use list: they are those of the run in a fixed order.
C7_OrderIndependent ==
    /\ fixedReturned =>
          interval = RefUpdateFixed(fixedIterations(Cardinality(component)),
                                    updStart.itv, updStart.actv, {})
    /\ updateReturns =>
          interval = RefUpdate(pc, updStart.itv, updStart.actv, {})

\* C9: a VarNode whose interval is Regular has lo <= hi.
C9_Consistent ==
    \A v \in DOMAIN interval :
        isRegular(interval[v]) => interval[v].l <= interval[v].u

(***************************************************************************)
(* The claims about the Range class, under RangeSpec.                      *)
(***************************************************************************)
\* C8: interval arithmetic is monotone: a within rx and c within ry give
\* a.op(c) within rx.op(ry), for every binary opcode.
C8_Monotone ==
    rop \in BinaryOpcodes =>
        \A a \in {r \in RegularRanges : subRange(r, rx)} :
            \A c \in {r \in RegularRanges : subRange(r, ry)} :
                subRange(evalOpcode(rop, a, c), rres)

\* C10 as stated: x.unionWith(Unknown) = x and x.intersectWith(Unknown) = x for every x.
C10_UnknownNeutral ==
    /\ (rop = "unionWith" /\ ry = UnknownRange) => rres = rx
    /\ (rop = "intersectWith" /\ ry = UnknownRange) => rres = rx

\* C10 amended: x.intersectWith(Unknown) = x for every x; x.unionWith(Unknown) = x
\* for every Regular or Unknown x, and Empty.unionWith(Unknown) is Unknown.
C10_UnknownNeutralAmended ==
    /\ (rop = "intersectWith" /\ ry = UnknownRange) => rres = rx
    /\ (rop = "unionWith" /\ ry = UnknownRange /\ ~isEmpty(rx)) => rres = rx
    /\ (rop = "unionWith" /\ ry = UnknownRange /\ isEmpty(rx)) => rres = UnknownRange

C10_Witness ==
    /\ rop = "unionWith" /\ ry = UnknownRange /\ isEmpty(rx) /\ rres = UnknownRange

\* C11: for every x (Regular, Unknown or Empty), x.unionWith(Empty) = x and
\* x.intersectWith(Empty) is the Empty interval (same kind, same endpoints).
C11_EmptyLaws ==
    /\ (rop = "unionWith" /\ ry = EmptyRange) => rres = rx
    /\ (rop = "intersectWith" /\ ry = EmptyRange) => rres = EmptyRange

C11_Witness ==
    /\ rop = "intersectWith" /\ ry = EmptyRange /\ isRegular(rx) /\ rres = EmptyRange

\* C12: add and mul are commutative: x.add(y) = y.add(x) and x.mul(y) = y.mul(x)
\* (same kind, same endpoints) for all intervals x and y, sentinel bounds and
\* wrapping products included.
C12_Commutative ==
    /\ add(rx, ry) = add(ry, rx)
    /\ mul(rx, ry) = mul(ry, rx)
    /\ rop = "Add" => rres = add(ry, rx)
    /\ rop = "Mul" => rres = mul(ry, rx)

\* a product of a sentinel bound (the helper) and a product that wraps
C12_Witness ==
    /\ rop = "Mul" /\ rres = mul(ry, rx) /\ rx # ry
    /\ rx.l = Min /\ rx.u \notin {Min, Max} /\ ry.u \notin {Min, Max}
    /\ rx.u * ry.u > Max

(***************************************************************************)
(* The claims about the unit test of the Range class, under UnitSpec.      *)
(***************************************************************************)
\* the assertion just run
lastTest == UnitTests[total]

\* C13: add returns the Unknown interval when the sum of the finite upper bounds
\* overflows the width: Range(Zero, Min-50).add(Range(Zero, Min-50)) equals
\* Range(Min, Max, Unknown), so the assertion that expects it does not fail.
C13_AddOverflowUnknown ==
    (pc = "asserts" /\ total > 0 /\ lastTest[2] = "Min-50"
        /\ rx = Regular(Zero, Max - 49) /\ ry = rx /\ rx.u + ry.u > Max)
    => rres = UnknownRange

\* the assertion just run is one on the sign classes zero, pos, neg, infy
signTestRun == pc = "asserts" /\ total > 0 /\ lastTest[2] # "Min-50"

\* C14: on the sign classes zero = [0,0], pos = [0,Max], neg = [Min,0] and
\* infy = [Min,Max], add, sub and mul return exactly the class the unit test
\* lists, at every width.
C14_SignClasses ==
    signTestRun => rres = testRange(lastTest[4])

\* C14 amended: the same at every width of at least 2 bits (at width 1, Zero is
\* Max, so zero = pos and neg = infy and every upper bound 0 is the sentinel).
C14_SignClassesAmended ==
    (signTestRun /\ MAX_BIT_INT >= 2) => rres = testRange(lastTest[4])

\* neg.mul(neg) = pos was asserted at a width where the four classes differ
C14_Witness ==
    /\ signTestRun /\ MAX_BIT_INT >= 2
    /\ lastTest = <<"Mul", "neg", "neg", "pos">>
    /\ rres = Regular(Zero, Max)

(***************************************************************************)
(* The claims about the scenarios, under ScenSpec.                         *)
(***************************************************************************)
\* C15: scenario 1 under Cousot: the header phi of x gets [10, 100] and the
\* sigma of x at the exit gets [100, 100].
C15_Scenario1 ==
    (pc = "done" /\ prog = ProgScenario1 /\ CGT = "Cousot")
    => /\ interval[4] = Regular(10, 100)
       /\ interval[7] = Regular(100, 100)

C15_Witness ==
    /\ pc = "done" /\ prog = ProgScenario1 /\ CGT = "Cousot"
    /\ interval[4] = Regular(10, 100)
    /\ interval[7] = Regular(100, 100)
    /\ interval[5] = Regular(10, 99)

\* C16 as stated: scenario 4 under Cousot: i at the header gets [0, 10] and the
\* narrowing phase tightens s at the header from the widened [0, Max] to [0, 45].
C16_Scenario4 ==
    (pc = "done" /\ prog = ProgScenario4 /\ CGT = "Cousot")
    => /\ interval[4] = Regular(0, 10)
       /\ interval[5] = Regular(0, 45)

\* C16 amended: i at the header gets [0, 10]; s at the header and s + i keep the
\* widened [0, Max], which the narrowing phase does not tighten.
C16_Scenario4Amended ==
    (pc = "done" /\ prog = ProgScenario4 /\ CGT = "Cousot")
    => /\ interval[4] = Regular(0, 10)
       /\ interval[5] = Regular(0, Max)
       /\ interval[7] = Regular(0, Max)

C16_Witness ==
    /\ pc = "done" /\ prog = ProgScenario4 /\ CGT = "Cousot"
    /\ interval[4] = Regular(0, 10)
    /\ interval[6] = Regular(0, 9)
    /\ interval[5] = Regular(0, Max)

\* C17 as stated: scenario 5: with input() at [Min, Max] and the constant 0xFF
\* at [255, 255], the sink m of the And operation gets [0, 255].
C17_Scenario5 ==
    (pc = "done" /\ prog = ProgScenario5) => interval[3] = Regular(0, 255)

\* C17 amended: the sink m of the And operation gets [Min, Max].
C17_Scenario5Amended ==
    (pc = "done" /\ prog = ProgScenario5) => interval[3] = Regular(Min, Max)

C17_Witness ==
    /\ pc = "done" /\ prog = ProgScenario5
    /\ interval[1] = Regular(Min, Max)
    /\ interval[2] = Regular(255, 255)
    /\ interval[3] = Regular(Min, Max)

(***************************************************************************)
(* The claims about the inter-procedural analysis, under InterSpec.        *)
(***************************************************************************)
\* C18: scenario 6: the matcher makes the formal p the sink of a PhiOp whose
\* sources are exactly the actuals 10 and 20, and findIntervals gives p + 1 and
\* the result node of each call site the interval [11, 21].
C18_Scenario6 ==
    /\ (prog = ProgScenario6 /\ pc \notin {"start", "width"})
       => /\ 1 \in DOMAIN defMap
          /\ oprs[defMap[1]].kind = "Phi"
          /\ oprs[defMap[1]].sink = 1
          /\ Len(oprs[defMap[1]].srcs) = 2
          /\ SeqRange(oprs[defMap[1]].srcs) = {4, 5}
    /\ (prog = ProgScenario6 /\ pc = "done")
       => /\ interval[3] = Regular(11, 21)
          /\ interval[6] = Regular(11, 21)
          /\ interval[7] = Regular(11, 21)

C18_Witness ==
    /\ prog = ProgScenario6 /\ pc = "done"
    /\ oprs[defMap[1]].srcs = <<4, 5>>
    /\ interval[4] = Regular(10, 10) /\ interval[5] = Regular(20, 20)
    /\ interval[1] = Regular(10, 20)
    /\ interval[3] = Regular(11, 21)
    /\ interval[6] = Regular(11, 21) /\ interval[7] = Regular(11, 21)

(***************************************************************************)
(* The claims about the two strategies, under BothSpec.                    *)
(***************************************************************************)
\* both passes have run on the function
bothDone == pc = "done" /\ CGT = "CropDFS"

\* C19: the interval CropDFS computes for each VarNode is equal to or wider than
\* the interval Cousot computes for it: never strictly narrower on any bound.
C19_CropWider ==
    bothDone =>
        \A v \in DOMAIN interval :
            \/ interval[v] = cousot[v]
            \/ /\ interval[v].type = cousot[v].type
               /\ interval[v].l <= cousot[v].l
               /\ cousot[v].u <= interval[v].u

(***************************************************************************)
(* The claims about buildVarNodes, under ScenSpec.                         *)
(***************************************************************************)
\* C20 as stated: after buildVarNodes, every VarNode whose value has no entry in
\* defMap holds the Regular interval [Min, Max], and every VarNode whose value
\* has an entry in defMap holds Unknown.
C20_InitialIntervals ==
    pc = "nodes" =>
        \A v \in vars :
            /\ v \notin DOMAIN defMap => interval[v] = Regular(Min, Max)
            /\ v \in DOMAIN defMap => interval[v] = Range(Min, Max, "Unknown")

\* C20 amended: after buildVarNodes, the VarNode of a constant c holds [c, c];
\* every other VarNode holds the Regular [Min, Max] if its value has no entry in
\* defMap, and Unknown if it has one.
C20_InitialIntervalsAmended ==
    pc = "nodes" =>
        \A v \in vars :
            /\ prog.vals[v].k = "const"
                   => /\ interval[v] = Regular(prog.vals[v].c, prog.vals[v].c)
                      /\ v \notin DOMAIN defMap
            /\ (prog.vals[v].k # "const" /\ v \notin DOMAIN defMap)
                   => interval[v] = Regular(Min, Max)
            /\ v \in DOMAIN defMap => interval[v] = Range(Min, Max, "Unknown")

C20_Witness ==
    /\ pc = "nodes" /\ prog = ProgScenario5
    /\ 1 \notin DOMAIN defMap /\ interval[1] = Regular(Min, Max)
    /\ 2 \notin DOMAIN defMap /\ interval[2] = Regular(255, 255)
    /\ 3 \in DOMAIN defMap /\ interval[3] = Range(Min, Max, "Unknown")

(***************************************************************************)
(* The claims about division and remainder, under RangeSpec.               *)
(***************************************************************************)
divOpcodes == {"UDiv", "SDiv", "URem", "SRem"}

\* C21: for udiv, sdiv, urem and srem on Regular operands, a divisor interval
\* whose lower or upper bound is zero gives exactly [Min, Max], whatever the
\* dividend interval is (sentinel bounds included).
C21_ZeroBoundDivisor ==
    (rop \in divOpcodes /\ (ry.l = Zero \/ ry.u = Zero)) => rres = MaxRange

\* a division whose other three corners are all computed from finite bounds
C21_Witness ==
    /\ rop = "SDiv" /\ ry.l = Zero /\ ry.u \notin {Zero, Max}
    /\ rx.l # Min /\ rx.u # Max
    /\ rres = MaxRange

sremApplied == rop \in {"srem", "SRem"}

C23_FixIntersects ==
    /\ rop = "EQ"  => rres = Regular(rx.l, rx.u)
    /\ rop = "SLE" => rres = Regular(ry.l, rx.u)
    /\ rop = "SLT" => rres = Regular(ry.l, IF rx.u # Max THEN rx.u - 1 ELSE rx.u)
    /\ rop = "SGE" => rres = Regular(rx.l, ry.u)
    /\ rop = "SGT" => rres = Regular(IF rx.l # Min THEN rx.l + 1 ELSE rx.l, ry.u)
    /\ rop \in {"NE", "ULT"} => rres = MaxRange
    /\ rop \in FixPredicates => rres.l \in Min..Max /\ rres.u \in Min..Max

\* C23 as the code has it: the same table, except that SLT on a bound whose
\* upper bound is Min wraps ub - 1 to Max and SGT on a bound whose lower
\* bound is Max wraps lb + 1 to Min.
C23_FixIntersectsAmended ==
    /\ rop = "EQ"  => rres = Regular(rx.l, rx.u)
    /\ rop = "SLE" => rres = Regular(ry.l, rx.u)
    /\ rop = "SLT" => rres = Regular(ry.l, CASE rx.u = Max -> Max
                                             [] rx.u = Min -> Max
                                             [] OTHER -> rx.u - 1)
    /\ rop = "SGE" => rres = Regular(rx.l, ry.u)
    /\ rop = "SGT" => rres = Regular(CASE rx.l = Min -> Min
                                       [] rx.l = Max -> Min
                                       [] OTHER -> rx.l + 1, ry.u)
    /\ rop \in {"NE", "ULT"} => rres = MaxRange

\* the guarded case: a bound that reaches Max is not decremented
C23_Witness ==
    /\ rop = "SLT" /\ isRegular(rx) /\ rx.u = Max /\ rx.l # Min
    /\ isRegular(ry) /\ ry.l # Min /\ rres = Regular(ry.l, Max)

(***************************************************************************)
(* The claims about the solver's phases.                                   *)
(***************************************************************************)
\* C24: propagateToNextSCC(component) writes only outside the component: it
\* leaves the interval of every VarNode of the component unchanged and
\* modifies only sinks that lie in other SCCs.
C24_PropagateOutside ==
    [][PropagateUse => \A V \in component : interval'[V] = interval[V]]_allvars

\* C24 as the code has it: propagateToNextSCC evaluates every operation that
\* uses a VarNode of the component and writes the result to the operation's
\* sink, whether that sink lies in the component or in a later SCC; no other
\* interval changes.
C24_PropagateUses ==
    [][PropagateUse =>
          \A V \in DOMAIN interval :
              interval'[V] # interval[V] =>
                  \E U \in component : \E e \in useMap[U] :
                      /\ oprs[e.op].sink = V
                      /\ interval'[V] = eval(interval, e.op)]_allvars

\* propagateToNextSCC has evaluated an operation whose sink is in the
\* component it propagates from
C24_Witness ==
    /\ pc = "propagate"
    /\ \E U \in component \ todo : \E e \in useMap[U] \ useList :
          /\ oprs[e.op].sink \in component
          /\ interval[oprs[e.op].sink] = eval(interval, e.op)
          /\ isRegular(interval[oprs[e.op].sink])

(***************************************************************************)
(* The claims about the branch map.                                        *)
(***************************************************************************)
\* the predicate of "b pred' a" equivalent to "a pred b"
swappedPredicate(pred) ==
    CASE pred = "SLT" -> "SGT"
      [] pred = "SGT" -> "SLT"
      [] pred = "SLE" -> "SGE"
      [] pred = "SGE" -> "SLE"
      [] OTHER        -> pred

\* the conditional branches that compare with a value that is no constant
symbolicBranches ==
    {b \in DOMAIN F.blocks :
        /\ F.blocks[b].term.t = "condbr"
        /\ ~isConstantInt(F, F.blocks[b].term.op1)}

\* C25: for a conditional branch on icmp pred op0, op1 with op1 not a constant,
\* the branch-map entry of op1 is SymbInterval(swap(pred), op0) on the true
\* successor and SymbInterval(swap(invert(pred)), op0) on the false successor.
C25_MirrorSwapped ==
    pc \notin {"start", "width"} =>
        \A b \in symbolicBranches :
            LET br == F.blocks[b].term
                VBM == valuesBranchMap[br.op1]
            IN  (VBM.BBTrue = br.tb /\ VBM.BBFalse = br.fb) =>
                    /\ VBM.ItvT = SymbInterval(UnknownRange, br.op0,
                                               swappedPredicate(br.pred))
                    /\ VBM.ItvF = SymbInterval(UnknownRange, br.op0,
                                      swappedPredicate(getInversePredicate(br.pred)))

(***************************************************************************)
(* The claims about symbolic intersects and control dependence edges,      *)
(* under SymbSpec.                                                         *)
(***************************************************************************)
symbolicSigmas == {op \in DOMAIN oprs : oprs[op].kind = "Sigma" /\ oprs[op].itv.symb}

\* the VarNodes of the components findIntervals has not started on
pendingNodes == UNION {components[r] : r \in SeqRange(sccIter)}

inSCCLoop == pc \in {"scc", "entry1", "fixed", "pre", "entry2", "pos", "crop", "propagate"}

inPostUpdate == pc \in {"pos", "crop"}

\* C26: for every SigmaOp whose intersect is symbolic with bound b, the SCC of
\* b is the SCC of the sigma's sink or is processed before it, and when the
\* post-update phase of the sink's SCC runs, fixIntersects has replaced the
\* symbolic intersect by a concrete range derived from b's interval.
C26_BoundResolvedFirst ==
    /\ inSCCLoop =>
          \A op \in symbolicSigmas :
              oprs[op].sink \notin pendingNodes => oprs[op].itv.bound \notin pendingNodes
    /\ inPostUpdate =>
          \A op \in symbolicSigmas :
              oprs[op].sink \in component =>
                  /\ isRegular(intersect[op])
                  /\ oprs[op].itv.bound \notin component =>
                        intersect[op] = SymbInterval_fixIntersects(oprs[op].itv.pred,
                                            interval[oprs[op].itv.bound], intersect[op])

\* the post-update phase of an SCC that holds a sigma and the sigma's bound
C26_Witness ==
    /\ inPostUpdate
    /\ \E op \in symbolicSigmas :
          /\ oprs[op].sink \in component
          /\ oprs[op].itv.bound \in component
          /\ isRegular(intersect[op])
          /\ ~isMaxRange(intersect[op])

\* the graph buildGraph made of the function, before findIntervals
builtGraph == buildGraph(F, EmptyGraph)

\* C27: control dependence pseudo-edges are transient: once the Nuutila
\* constructor has returned, useMap holds no ControlDep operation and, for
\* every value, exactly the real operations it held before SCC discovery;
\* vars, defMap and the operations are unchanged (looked at where the
\* constructor returns, at the head of each round of the loop over the SCCs
\* and when findIntervals returns).
C27_EdgesTransient ==
    pc \in {"scc", "done"} =>
        /\ \A v \in DOMAIN useMap : \A e \in useMap[v] : ~e.cd
        /\ useMap = builtGraph.useMap
        /\ vars = builtGraph.vars
        /\ defMap = builtGraph.defMap
        /\ oprs = builtGraph.oprs

\* the constructor has just returned, and it had pseudo-edges to remove
C27_Witness ==
    /\ pc = "scc"
    /\ component = {}
    /\ Len(sccIter) = Len(worklist)
    /\ \E b \in DOMAIN symbMap : symbMap[b] # {} /\ b \in DOMAIN useMap
    /\ \A v \in DOMAIN useMap : \A e \in useMap[v] : ~e.cd

\* C28: when findIntervals returns, no VarNode of the graph has an interval of
\* kind Unknown: the nodes of singleton and of larger SCCs have been promoted,
\* and no later propagateToNextSCC write has set a processed node back to
\* Unknown.
C28_NoUnknown ==
    /\ pc = "done" => \A v \in vars : ~isUnknown(interval[v])
    /\ inSCCLoop => \A v \in vars \ (pendingNodes \cup component) : ~isUnknown(interval[v])

\* every SCC has been processed, singletons with a defining operation and
\* larger components among them
C28_Witness ==
    /\ pc = "scc"
    /\ sccIter = <<>>
    /\ \E r \in DOMAIN components :
          Cardinality(components[r]) = 1 /\ components[r] \subseteq DOMAIN defMap
    /\ \E r \in DOMAIN components : Cardinality(components[r]) > 1
    /\ \A v \in vars : isRegular(interval[v])

\* C29: in one CropDFS::crop walk Meet::crop is applied to each sink at most
\* once (only a sink not yet visited changes, and it is visited from then on),
\* and Meet::crop shrinks only on the side recorded in the sink's
\* abstractState: the lower bound rises only in state '-' or '?', the upper
\* bound falls only in state '+' or '?', no lower bound falls, no upper bound
\* rises, and a node in state '0' is unchanged.
C29_CropOneSide ==
    [][CropStep =>
          /\ visitedOps \subseteq visitedOps'
          /\ \A V \in DOMAIN interval :
                /\ interval'[V] # interval[V] => V \notin visitedOps /\ V \in visitedOps'
                /\ interval'[V].l >= interval[V].l
                /\ interval'[V].u <= interval[V].u
                /\ interval'[V].l > interval[V].l => abstractState[V] \in {"-", "?"}
                /\ interval'[V].u < interval[V].u => abstractState[V] \in {"+", "?"}
                /\ abstractState[V] = "0" => interval'[V] = interval[V]]_allvars

\* a walk over two sinks and more has lowered the upper bound of a sink
\* recorded as '+'
C29_Witness ==
    /\ pc = "crop"
    /\ cropping
    /\ \E V \in visitedOps : abstractState[V] = "+" /\ interval[V].u # Max
    /\ Cardinality(visitedOps) >= 2

\* Cousot::posUpdate has emptied its active set and is about to return
posUpdateDone == pc = "pos" /\ useList = {} /\ actv = {}

====
